---- MODULE Spec2Model ----
(***************************************************************************)
(* A model of the exchange simulator's deterministic core.                 *)
(*                                                                         *)
(* The limit order book (engine/orderbook.ts) is modelled as it is coded:  *)
(* orders are objects on a heap, the two price maps hold queues of         *)
(* references to them and the order index maps an order id to a reference. *)
(* Money is an integer number of price units.                              *)
(***************************************************************************)
EXTENDS Integers, Sequences, FiniteSets, TLC

VARIABLES
    heap,           \* ref -> Order object, for the objects the book holds and
                    \* those the last call filled
    allocSeq,       \* number of Order objects created so far (the next ref)
    bids,           \* OrderBook.bids  : price -> queue of refs
    asks,           \* OrderBook.asks  : price -> queue of refs
    orderIndex,     \* OrderBook.orderIndex : order id -> ref
    bookTrueValue,  \* OrderBook._trueValue
    tradeSeq,       \* orderbook.ts module counter
    trades,         \* the Trade[] the last call returned (empty unless a submit)
    callerSeq       \* id counter of the code driving the book directly

bookVars == <<heap, allocSeq, bids, asks, orderIndex, bookTrueValue, tradeSeq,
              trades, callerSeq>>

VARIABLES
    config,         \* Simulation.config
    pc,             \* where the simulation stands inside runTick
    tick,           \* Simulation.tick
    value,          \* PriceProcess.value
    mm,             \* the MarketMaker object
    mmOrderSeq,     \* market-maker.ts module counter orderSeq
    traderOrderSeq, \* traders.ts module counter orderSeq
    quotes,         \* runTick: the orders mm.quote returned, not yet submitted
    tickTrades,     \* runTick: tickTrades
    allTrades,      \* Simulation.allTrades
    submittedIds,   \* ids of the orders this Simulation handed to book.submit,
                    \* in creation order
    onTradeLog      \* the mm.onTrade calls this Simulation made: trade and
                    \* trueValueAfter

simVars == <<config, pc, tick, value, mm, mmOrderSeq, traderOrderSeq, quotes,
             tickTrades, allTrades, submittedIds, onTradeLog>>

VARIABLES
    run,            \* number of Simulation objects constructed in this process
    rngLog,         \* the stream of Rng(config.seed), as far as it was drawn
    metricsLog,     \* the metrics of each step() of this Simulation
    firstRun        \* what the first Simulation produced, once a second exists

VARIABLES
    rng             \* Rng.s of the Simulation's generator as its two 16-bit
                    \* halves <<high, low>>; <<>> where the generator's stream
                    \* is left open

seedVars == <<rng>>

VARIABLES
    running,        \* Simulation.running
    loops,          \* the calls of run() made so far, each with its position
    stepper,        \* the call of run() that is inside its loop body, or 0
    stepLog         \* the SimState each step() of a run() returned

loopVars == <<running, loops, stepper, stepLog>>

VARIABLES
    traderCall      \* the last call of a trader's maybeOrder made by code
                    \* driving the trader directly: arguments and result

traderVars == <<traderCall>>

VARIABLES
    current,        \* what the last call of getCurrentState() returned
    peeked          \* the calls of priceProcess.peek made by code driving the
                    \* price process directly: steps and result of each

queryVars == <<current, peeked>>

runVars == <<run, rngLog, metricsLog, firstRun, seedVars, loopVars, traderVars,
             queryVars>>

vars == <<bookVars, simVars, runVars>>

(***************************************************************************)
(* Bounds of the model.                                                    *)
(***************************************************************************)
MaxOrders == 3      \* orders submitted by the code driving the book directly
MaxPrice  == 2      \* limit prices 1..MaxPrice
MaxQty    == 2      \* order quantities 1..MaxQty

\* Money is counted in units of 1/CentUnits cent; Math.round(x * 100) / 100
\* rounds to a multiple of CentUnits.
CentUnits == 20
Dollars(n) == n * 100 * CentUnits

Prices  == 1..MaxPrice
Qtys    == 1..MaxQty
Sides   == {"buy", "sell"}
\* Ids are pairs <<prefix, number>>: "noise-1" is <<"noise", 1>>, "t7" is
\* <<"t", 7>>, and the maker's owner id 'mm' is <<"mm", 0>>.
MMId == <<"mm", 0>>
Traders == { [traderId |-> MMId,           traderType |-> "mm"],
             [traderId |-> <<"noise", 1>>, traderType |-> "noise"] }
\* the two callers of the directly driven book take turns
CallerOf(n) == IF n % 2 = 1 THEN [traderId |-> MMId,           traderType |-> "mm"]
                            ELSE [traderId |-> <<"noise", 1>>, traderType |-> "noise"]

(***************************************************************************)
(* JavaScript Map as a function whose domain is the key set.               *)
(***************************************************************************)
EmptyMap == [k \in {} |-> 0]
MapHas(m, k) == k \in DOMAIN m
MapSet(m, k, v) == [x \in (DOMAIN m) \cup {k} |-> IF x = k THEN v ELSE m[x]]
MapDelete(m, k) == [x \in (DOMAIN m) \ {k} |-> m[x]]

Min(a, b) == IF a < b THEN a ELSE b
Max(a, b) == IF a > b THEN a ELSE b
SetMax(S) == CHOOSE x \in S : \A y \in S : y <= x
SetMin(S) == CHOOSE x \in S : \A y \in S : x <= y

RemoveAt(q, i) == [j \in 1..(Len(q) - 1) |-> IF j < i THEN q[j] ELSE q[j + 1]]

RECURSIVE SortAsc(_)
SortAsc(S) == IF S = {} THEN <<>>
              ELSE LET m == SetMin(S) IN <<m>> \o SortAsc(S \ {m})

RECURSIVE SortDesc(_)
SortDesc(S) == IF S = {} THEN <<>>
               ELSE LET m == SetMax(S) IN <<m>> \o SortDesc(S \ {m})

(***************************************************************************)
(* OrderBook getters.  None is the null of bestBid / bestAsk / mid.        *)
(***************************************************************************)
None == "null"

BestBidOf(b) ==
    LET prices == {p \in DOMAIN b : Len(b[p]) > 0}
    IN IF prices # {} THEN SetMax(prices) ELSE None

BestAskOf(a) ==
    LET prices == {p \in DOMAIN a : Len(a[p]) > 0}
    IN IF prices # {} THEN SetMin(prices) ELSE None

HasLevel(book) == \E p \in DOMAIN book : Len(book[p]) > 0

bestBid == BestBidOf(bids)
bestAsk == BestAskOf(asks)

\* OrderBook.mid, doubled (bb + ba), for a two-sided book
Mid2Of(b, a) == BestBidOf(b) + BestAskOf(a)

(***************************************************************************)
(* OrderBook.submit.  A book state is the record                           *)
(*   [heap, bids, asks, orderIndex, tradeSeq, trades]                      *)
(* and o is the reference of the submitted order.                          *)
(***************************************************************************)
OppositeOf(st, isBuy) == IF isBuy THEN st.asks ELSE st.bids

WithOpposite(st, isBuy, book) ==
    IF isBuy THEN [st EXCEPT !.asks = book] ELSE [st EXCEPT !.bids = book]

\* line 44: the opposite prices in match order
MatchOrderDescending(book, isBuy) ==
    IF isBuy THEN SortDesc(DOMAIN book) ELSE SortAsc(DOMAIN book)
MatchOrder(book, isBuy) ==
    IF isBuy THEN SortAsc(DOMAIN book) ELSE SortDesc(DOMAIN book)

\* lines 49-50
CanMatchAlways(order, price) == TRUE
CanMatchMarketOnly(order, price) == order.type = "market"
CanMatch(order, price) ==
    \/ order.type = "market"
    \/ IF order.side = "buy" THEN price <= order.price ELSE price >= order.price

\* lines 63-76: the trade record
MakeTradeTakerPrice(st, price, fillQty, order, maker) ==
    [ id |-> <<"t", st.tradeSeq + 1>>, ts |-> order.ts,
      price |-> order.price, qty |-> fillQty,
      takerOrderId |-> order.id, takerId |-> order.traderId,
      takerSide |-> order.side, takerType |-> order.traderType,
      makerOrderId |-> maker.id, makerId |-> maker.traderId,
      makerType |-> maker.traderType, trueValue |-> st.trueValue ]
MakeTradeWholeQty(st, price, fillQty, order, maker) ==
    [ id |-> <<"t", st.tradeSeq + 1>>, ts |-> order.ts,
      price |-> price, qty |-> order.qty,
      takerOrderId |-> order.id, takerId |-> order.traderId,
      takerSide |-> order.side, takerType |-> order.traderType,
      makerOrderId |-> maker.id, makerId |-> maker.traderId,
      makerType |-> maker.traderType, trueValue |-> st.trueValue ]
MakeTrade(st, price, fillQty, order, maker) ==
    [ id |-> <<"t", st.tradeSeq + 1>>, ts |-> order.ts,
      price |-> price, qty |-> fillQty,
      takerOrderId |-> order.id, takerId |-> order.traderId,
      takerSide |-> order.side, takerType |-> order.traderType,
      makerOrderId |-> maker.id, makerId |-> maker.traderId,
      makerType |-> maker.traderType, trueValue |-> st.trueValue ]

\* line 55: the maker served next
QueueLast(queue) == queue[Len(queue)]
QueueHead(queue) == queue[1]

\* line 58
FillQtyMakerRemaining(makerRemaining, takerRemaining) == makerRemaining
FillQty(makerRemaining, takerRemaining) == Min(makerRemaining, takerRemaining)

\* lines 55-81: one pass of the while loop on the queue at `price`
FillHead(st, price, o, isBuy) ==
    LET book  == OppositeOf(st, isBuy)
        queue == book[price]
        m     == QueueHead(queue)
        makerRemaining == st.heap[m].qty - st.heap[m].filled
        takerRemaining == st.heap[o].qty - st.heap[o].filled
        fillQty == FillQty(makerRemaining, takerRemaining)
        heap1 == [st.heap EXCEPT ![m].filled = @ + fillQty,
                                 ![o].filled = @ + fillQty]
        trade == MakeTrade(st, price, fillQty, heap1[o], heap1[m])
        done  == heap1[m].filled >= heap1[m].qty
        st1   == [st EXCEPT !.heap = heap1,
                            !.tradeSeq = @ + 1,
                            !.trades = Append(@, trade),
                            !.orderIndex = IF done THEN MapDelete(@, heap1[m].id)
                                           ELSE @]
    IN IF done
       THEN WithOpposite(st1, isBuy,
                [book EXCEPT ![price] = RemoveAt(queue, 1)])
       ELSE st1

\* lines 54-82
RECURSIVE ConsumeQueue(_, _, _, _)
ConsumeQueue(st, price, o, isBuy) ==
    IF Len(OppositeOf(st, isBuy)[price]) > 0
       /\ st.heap[o].filled < st.heap[o].qty
    THEN ConsumeQueue(FillHead(st, price, o, isBuy), price, o, isBuy)
    ELSE st

\* line 84
DropEmptyLevelNever(st, price, isBuy) == st
DropEmptyLevel(st, price, isBuy) ==
    LET book == OppositeOf(st, isBuy)
    IN IF Len(book[price]) = 0
       THEN WithOpposite(st, isBuy, MapDelete(book, price))
       ELSE st

\* lines 46-85
RECURSIVE MatchPrices(_, _, _, _)
MatchPrices(st, prices, o, isBuy) ==
    IF prices = <<>> THEN st
    ELSE LET price == Head(prices)
             order == st.heap[o]
         IN IF order.qty <= order.filled THEN st
            ELSE IF ~CanMatch(order, price) THEN st
            ELSE MatchPrices(
                    DropEmptyLevel(ConsumeQueue(st, price, o, isBuy), price, isBuy),
                    Tail(prices), o, isBuy)

\* lines 95-101
AddToBookFront(st, o) ==
    LET order == st.heap[o]
        book  == IF order.side = "buy" THEN st.bids ELSE st.asks
        book1 == IF ~MapHas(book, order.price)
                 THEN MapSet(book, order.price, <<>>) ELSE book
        book2 == [book1 EXCEPT ![order.price] = <<o>> \o @]
    IN IF order.side = "buy" THEN [st EXCEPT !.bids = book2]
                             ELSE [st EXCEPT !.asks = book2]
AddToBook(st, o) ==
    LET order == st.heap[o]
        book  == IF order.side = "buy" THEN st.bids ELSE st.asks
        book1 == IF ~MapHas(book, order.price)
                 THEN MapSet(book, order.price, <<>>) ELSE book
        book2 == [book1 EXCEPT ![order.price] = Append(@, o)]
    IN IF order.side = "buy" THEN [st EXCEPT !.bids = book2]
                             ELSE [st EXCEPT !.asks = book2]

\* lines 87-89
RestResidualAnyType(st, o) ==
    IF st.heap[o].filled < st.heap[o].qty THEN AddToBook(st, o) ELSE st
RestResidual(st, o) ==
    IF st.heap[o].type = "limit" /\ st.heap[o].filled < st.heap[o].qty
    THEN AddToBook(st, o) ELSE st

\* lines 39-93; the caller's Order object is heap[o]
SubmitOrder(st, o) ==
    LET isBuy  == st.heap[o].side = "buy"
        st0    == [st EXCEPT !.trades = <<>>]
        prices == MatchOrder(OppositeOf(st0, isBuy), isBuy)
        st1    == MatchPrices(st0, prices, o, isBuy)
        st2    == RestResidual(st1, o)
    IN [st2 EXCEPT !.orderIndex = MapSet(@, st2.heap[o].id, o)]

(***************************************************************************)
(* OrderBook.cancel and OrderBook.cancelAll                                *)
(***************************************************************************)
FindIndex(st, queue, orderId) ==
    LET hits == {i \in 1..Len(queue) : st.heap[queue[i]].id = orderId}
    IN IF hits = {} THEN 0 ELSE SetMin(hits)

\* lines 103-117
CancelOrderIndexOnly(st, orderId) ==
    IF ~MapHas(st.orderIndex, orderId) THEN st
    ELSE [st EXCEPT !.orderIndex = MapDelete(@, orderId)]
CancelOrderKeepLevel(st, orderId) ==
    IF ~MapHas(st.orderIndex, orderId) THEN st
    ELSE LET order == st.heap[st.orderIndex[orderId]]
             isBid == order.side = "buy"
             book  == IF isBid THEN st.bids ELSE st.asks
             book1 ==
                IF MapHas(book, order.price)
                THEN LET queue  == book[order.price]
                         idx    == FindIndex(st, queue, orderId)
                         queue1 == IF idx >= 1 THEN RemoveAt(queue, idx) ELSE queue
                     IN [book EXCEPT ![order.price] = queue1]
                ELSE book
             st1 == IF isBid THEN [st EXCEPT !.bids = book1]
                             ELSE [st EXCEPT !.asks = book1]
         IN [st1 EXCEPT !.orderIndex = MapDelete(@, orderId)]
CancelOrder(st, orderId) ==
    IF ~MapHas(st.orderIndex, orderId) THEN st
    ELSE LET order == st.heap[st.orderIndex[orderId]]
             isBid == order.side = "buy"
             book  == IF isBid THEN st.bids ELSE st.asks
             book1 ==
                IF MapHas(book, order.price)
                THEN LET queue  == book[order.price]
                         idx    == FindIndex(st, queue, orderId)
                         queue1 == IF idx >= 1 THEN RemoveAt(queue, idx) ELSE queue
                     IN IF Len(queue1) = 0 THEN MapDelete(book, order.price)
                        ELSE [book EXCEPT ![order.price] = queue1]
                ELSE book
             st1 == IF isBid THEN [st EXCEPT !.bids = book1]
                             ELSE [st EXCEPT !.asks = book1]
         IN [st1 EXCEPT !.orderIndex = MapDelete(@, orderId)]

\* line 123 cancelling only the first id collected
CancelEachFirst(st, ids) ==
    IF ids = {} THEN st
    ELSE CancelOrder(st, CHOOSE x \in ids : TRUE)

RECURSIVE CancelEach(_, _)
CancelEach(st, ids) ==
    IF ids = {} THEN st
    ELSE LET id == CHOOSE x \in ids : TRUE
         IN CancelEach(CancelOrder(st, id), ids \ {id})

\* lines 119-124
CancelAllOfNone(st, traderId) == st
CancelAllOf(st, traderId) ==
    LET toCancel == {id \in DOMAIN st.orderIndex :
                        st.heap[st.orderIndex[id]].traderId = traderId}
    IN CancelEach(st, toCancel)

(***************************************************************************)
(* The book as a state record, and back.                                   *)
(***************************************************************************)
BookState ==
    [ heap |-> heap, bids |-> bids, asks |-> asks, orderIndex |-> orderIndex,
      tradeSeq |-> tradeSeq, trades |-> trades, trueValue |-> bookTrueValue ]

\* the refs the book holds, in its queues and its index, and the resting
\* orders the trades just returned were made with
Reachable(st) ==
    UNION {{st.bids[p][i] : i \in 1..Len(st.bids[p])} : p \in DOMAIN st.bids}
    \cup UNION {{st.asks[p][i] : i \in 1..Len(st.asks[p])} : p \in DOMAIN st.asks}
    \cup {st.orderIndex[id] : id \in DOMAIN st.orderIndex}
    \cup {r \in DOMAIN st.heap :
            \E k \in 1..Len(st.trades) : st.trades[k].makerOrderId = st.heap[r].id}

\* an Order object nothing refers to any more is gone
Collect(h, live) == [r \in (DOMAIN h) \cap live |-> h[r]]

SetBook(st) ==
    /\ heap' = Collect(st.heap, Reachable(st))
    /\ bids' = st.bids
    /\ asks' = st.asks
    /\ orderIndex' = st.orderIndex
    /\ tradeSeq' = st.tradeSeq
    /\ trades' = st.trades

\* the caller creates the Order object, then hands it to submit
NewOrder(id, trader, side, type, price, qty, ts) ==
    [ id |-> id, traderId |-> trader.traderId, traderType |-> trader.traderType,
      side |-> side, type |-> type, price |-> price, qty |-> qty,
      filled |-> 0, ts |-> ts ]

Alloc(st, order) == [st EXCEPT !.heap = MapSet(@, allocSeq + 1, order)]

(***************************************************************************)
(* The book driven directly: any sequence of submit, cancel, cancelAll.    *)
(***************************************************************************)
BookInit ==
    /\ heap = EmptyMap
    /\ allocSeq = 0
    /\ bids = EmptyMap
    /\ asks = EmptyMap
    /\ orderIndex = EmptyMap
    /\ bookTrueValue = Dollars(100)
    /\ tradeSeq = 0
    /\ trades = <<>>
    /\ callerSeq = 0

Submit ==
    /\ callerSeq < MaxOrders
    /\ \E side \in Sides, type \in {"limit", "market"},
          p \in Prices, qty \in Qtys :
        /\ type = "market" => p = 1
        /\ LET price == IF type = "market" THEN 0 ELSE p
               trader == CallerOf(callerSeq + 1)
               order == NewOrder(<<"o", callerSeq + 1>>, trader, side, type,
                                 price, qty, callerSeq + 1)
               st    == Alloc(BookState, order)
               o     == allocSeq + 1
           IN SetBook(SubmitOrder(st, o))
    /\ allocSeq' = allocSeq + 1
    /\ callerSeq' = callerSeq + 1
    /\ UNCHANGED <<bookTrueValue, simVars, runVars>>

Cancel ==
    /\ \E n \in 1..MaxOrders :
        SetBook([CancelOrder(BookState, <<"o", n>>) EXCEPT !.trades = <<>>])
    /\ UNCHANGED <<bookTrueValue, callerSeq, allocSeq, simVars, runVars>>

CancelAll ==
    /\ \E trader \in Traders :
        SetBook([CancelAllOf(BookState, trader.traderId) EXCEPT !.trades = <<>>])
    /\ UNCHANGED <<bookTrueValue, callerSeq, allocSeq, simVars, runVars>>

Next == Submit \/ Cancel \/ CancelAll

(***************************************************************************)
(* engine/rng.ts.  A draw is taken in one of two ways.  Where the stream   *)
(* is left open, each call of next() returns one of the RngGrid values     *)
(* (2k+1)/(2*RngGrid) of [0,1), with k chosen freely: the draw <<k>>.      *)
(* Where the generator is followed from its seed, the draw is the state    *)
(* <<high, low>> next() has reached.  bool and int are computed from       *)
(* either as coded.                                                        *)
(***************************************************************************)
RngGrid == 2
Draws == {<<k>> : k \in 0..(RngGrid - 1)}

\* the place of a draw the code does not make
Undrawn == <<>>
MaybeDraws == Draws \cup {Undrawn}

Rat(n, d) == [num |-> n, den |-> d]
Half == Rat(1, 2)

\* The generator itself: s' = (1664525 * s + 1013904223) >>> 0, computed on
\* the halves of s = high * 2^16 + low, with 1664525 = 25 * 2^16 + 26125 and
\* 1013904223 = 15470 * 2^16 + 62303.  A draw <<high, low>> is the value
\* s / 2^32 that next() returns for the state s it has just reached.
Word == 65536

\* new Rng(seed): seed >>> 0, for a seed in 0..2^31-1
Seeded(seed) == <<seed \div Word, seed % Word>>

LcgNext(s) ==
    LET low == 26125 * s[2] + 62303
        high == 25 * s[2] + 26125 * s[1] + 15470 + low \div Word
    IN <<high % Word, low % Word>>

\* the state after n calls of next()
RECURSIVE LcgIter(_, _)
LcgIter(s, n) == IF n = 0 THEN s ELSE LcgIter(LcgNext(s), n - 1)

\* s / 2^32 < p
LcgBelow(s, p) ==
    LET d == s[1] * p.den - p.num * Word
    IN IF d <= -p.den THEN TRUE
       ELSE IF d >= 0 THEN FALSE
       ELSE d * Word + s[2] * p.den < 0

\* floor((s / 2^32) * n)
LcgScaled(s, n) == (s[1] * n + (s[2] * n) \div Word) \div Word

\* Rng.bool(p): next() < p
RngBool(u, p) ==
    IF Len(u) = 1 THEN (2 * u[1] + 1) * p.den < p.num * 2 * RngGrid
                  ELSE LcgBelow(u, p)

\* Rng.int(min, max): floor(next() * (max - min + 1)) + min
RngInt(u, min, max) ==
    IF Len(u) = 1 THEN ((2 * u[1] + 1) * (max - min + 1)) \div (2 * RngGrid) + min
                  ELSE LcgScaled(u, max - min + 1) + min

\* Rng.normal(0, 1), as a whole number of standard deviations
NormalDraws == {-1, 0, 1}

\* Rng.normal draws u1, then u2, and returns sqrt(-2 ln u1) * cos(2 pi u2):
\* of a generator's two draws the sign of the cosine is kept, which is
\* positive in the first and the last quarter of [0,1)
NormalOf(u1, u2) ==
    IF u2[1] < Word \div 4 \/ u2[1] >= 3 * (Word \div 4) THEN {0, 1} ELSE {-1, 0}

(***************************************************************************)
(* engine/price-process.ts                                                 *)
(***************************************************************************)
\* the floor 0.01
MinValue == CentUnits

\* PriceProcess.step: value * (1 + diffusion + jump), floored
StepValueNoFloor(v, c, z, jump) ==
    LET den == c.volatility.den * c.jumpSize.den
        num == den + z * c.volatility.num * c.jumpSize.den
                   + jump * c.jumpSize.num * c.volatility.den
    IN v + (v * (num - den)) \div den
StepValue(v, c, z, jump) ==
    LET den == c.volatility.den * c.jumpSize.den
        num == den + z * c.volatility.num * c.jumpSize.den
                   + jump * c.jumpSize.num * c.volatility.den
    IN Max(MinValue, v + (v * (num - den)) \div den)

(***************************************************************************)
(* agents/market-maker.ts                                                  *)
(***************************************************************************)
WindowSize == 20
MinWindow == 5
AdverseWeight == 3

\* the constructor's default inventorySkewFactor, 0.0005 = 1/20 cent
DefaultInventorySkew == CentUnits \div 20

NewMarketMaker(baseSpread, size, adaptRate) ==
    [ baseSpread |-> baseSpread, currentSpread |-> baseSpread, size |-> size,
      adaptRate |-> adaptRate, inventorySkewFactor |-> DefaultInventorySkew,
      pnl |-> 0, inventory |-> 0, recentTrades |-> <<>>,
      spreadPnl |-> 0, inventoryPnl |-> 0, totalSpreadCaptured |-> 0,
      fillCount |-> 0 ]

Abs(x) == IF x < 0 THEN -x ELSE x

\* Math.round(x * 100) / 100 of x = x2 / 2: the nearest multiple of CentUnits,
\* a half rounding up
RoundCent2Down(x2) == (x2 \div (2 * CentUnits)) * CentUnits
RoundCent2(x2) == ((x2 + CentUnits) \div (2 * CentUnits)) * CentUnits

AdverseCountInverted(window) ==
    Cardinality({i \in 1..Len(window) : ~window[i].adverse})
AdverseCount(window) ==
    Cardinality({i \in 1..Len(window) : window[i].adverse})

\* MarketMaker.adaptSpread
AdaptSpreadNoFloor(m) ==
    IF Len(m.recentTrades) < MinWindow THEN m
    ELSE LET n == Len(m.recentTrades)
             target == (m.baseSpread * (n + AdverseWeight * AdverseCount(m.recentTrades)))
                           \div n
             moved  == m.currentSpread
                       + ((target - m.currentSpread) * m.adaptRate.num)
                             \div m.adaptRate.den
         IN [m EXCEPT !.currentSpread = moved]
AdaptSpreadFromFour(m) ==
    IF Len(m.recentTrades) < MinWindow - 1 THEN m
    ELSE LET n == Len(m.recentTrades)
             target == (m.baseSpread * (n + AdverseWeight * AdverseCount(m.recentTrades)))
                           \div n
             moved  == m.currentSpread
                       + ((target - m.currentSpread) * m.adaptRate.num)
                             \div m.adaptRate.den
         IN [m EXCEPT !.currentSpread = Max(m.baseSpread \div 2, moved)]
AdaptSpread(m) ==
    IF Len(m.recentTrades) < MinWindow THEN m
    ELSE LET n == Len(m.recentTrades)
             target == (m.baseSpread * (n + AdverseWeight * AdverseCount(m.recentTrades)))
                           \div n
             moved  == m.currentSpread
                       + ((target - m.currentSpread) * m.adaptRate.num)
                             \div m.adaptRate.den
         IN [m EXCEPT !.currentSpread = Max(m.baseSpread \div 2, moved)]

\* MarketMaker.onTrade
OnTradePnlBeforeMtm(m, trade, trueValueAfter) ==
    IF trade.makerId # MMId THEN m
    ELSE LET wasAdverse == trade.takerType = "informed"
             prevInventory == m.inventory
             spreadCaptured ==
                IF trade.takerSide = "buy"
                THEN (trade.price - trade.trueValue) * trade.qty
                ELSE (trade.trueValue - trade.price) * trade.qty
             inventoryMtm == prevInventory * (trueValueAfter - trade.trueValue)
             window == Append(m.recentTrades, [adverse |-> wasAdverse, ts |-> trade.ts])
             m1 == [m EXCEPT
                     !.spreadPnl = @ + spreadCaptured,
                     !.totalSpreadCaptured = @ + Abs(spreadCaptured),
                     !.fillCount = @ + 1,
                     !.inventory = IF trade.takerSide = "buy" THEN @ - trade.qty
                                                               ELSE @ + trade.qty,
                     !.inventoryPnl = @ + inventoryMtm,
                     !.pnl = m.spreadPnl + spreadCaptured + m.inventoryPnl,
                     !.recentTrades = IF Len(window) > WindowSize THEN Tail(window)
                                                                  ELSE window]
         IN m1
OnTradeInventoryReversed(m, trade, trueValueAfter) ==
    IF trade.makerId # MMId THEN m
    ELSE LET wasAdverse == trade.takerType = "informed"
             prevInventory == m.inventory
             spreadCaptured ==
                IF trade.takerSide = "buy"
                THEN (trade.price - trade.trueValue) * trade.qty
                ELSE (trade.trueValue - trade.price) * trade.qty
             inventoryMtm == prevInventory * (trueValueAfter - trade.trueValue)
             window == Append(m.recentTrades, [adverse |-> wasAdverse, ts |-> trade.ts])
             m1 == [m EXCEPT
                     !.spreadPnl = @ + spreadCaptured,
                     !.totalSpreadCaptured = @ + Abs(spreadCaptured),
                     !.fillCount = @ + 1,
                     !.inventory = IF trade.takerSide = "buy" THEN @ + trade.qty
                                                               ELSE @ - trade.qty,
                     !.inventoryPnl = @ + inventoryMtm,
                     !.pnl = m.spreadPnl + spreadCaptured + m.inventoryPnl + inventoryMtm,
                     !.recentTrades = IF Len(window) > WindowSize THEN Tail(window)
                                                                  ELSE window]
         IN AdaptSpread(m1)
OnTrade(m, trade, trueValueAfter) ==
    IF trade.makerId # MMId THEN m
    ELSE LET wasAdverse == trade.takerType = "informed"
             prevInventory == m.inventory
             spreadCaptured ==
                IF trade.takerSide = "buy"
                THEN (trade.price - trade.trueValue) * trade.qty
                ELSE (trade.trueValue - trade.price) * trade.qty
             inventoryMtm == prevInventory * (trueValueAfter - trade.trueValue)
             window == Append(m.recentTrades, [adverse |-> wasAdverse, ts |-> trade.ts])
             m1 == [m EXCEPT
                     !.spreadPnl = @ + spreadCaptured,
                     !.totalSpreadCaptured = @ + Abs(spreadCaptured),
                     !.fillCount = @ + 1,
                     !.inventory = IF trade.takerSide = "buy" THEN @ - trade.qty
                                                               ELSE @ + trade.qty,
                     !.inventoryPnl = @ + inventoryMtm,
                     !.pnl = m.spreadPnl + spreadCaptured + m.inventoryPnl + inventoryMtm,
                     !.recentTrades = IF Len(window) > WindowSize THEN Tail(window)
                                                                  ELSE window]
         IN AdaptSpread(m1)

RECURSIVE OnTrades(_, _, _)
OnTrades(m, tr, trueValueAfter) ==
    IF tr = <<>> THEN m
    ELSE OnTrades(OnTrade(m, Head(tr), trueValueAfter), Tail(tr), trueValueAfter)

\* MarketMaker.reset
Reset(m, baseSpread, size, adaptRate) ==
    [m EXCEPT !.baseSpread = baseSpread, !.currentSpread = baseSpread,
              !.size = size, !.adaptRate = adaptRate,
              !.pnl = 0, !.inventory = 0, !.recentTrades = <<>>,
              !.spreadPnl = 0, !.inventoryPnl = 0, !.totalSpreadCaptured = 0,
              !.fillCount = 0]

MMTrader == [traderId |-> MMId, traderType |-> "mm"]

\* MarketMaker.quote, after its cancelAll: the two orders, bid first
QuoteOrdersStaleSeq(m, b, a, trueValue, ts, seq) ==
    LET mid2 == IF HasLevel(b) /\ HasLevel(a) THEN Mid2Of(b, a) ELSE 2 * trueValue
        skew == m.inventory * m.inventorySkewFactor
        bidPrice == RoundCent2(mid2 - m.currentSpread - 2 * skew)
        askPrice == RoundCent2(mid2 + m.currentSpread - 2 * skew)
    IN << NewOrder(<<"mm-b", 1>>, MMTrader, "buy", "limit", bidPrice, m.size, ts),
          NewOrder(<<"mm-a", 2>>, MMTrader, "sell", "limit", askPrice, m.size, ts) >>
QuoteOrdersFullSpread(m, b, a, trueValue, ts, seq) ==
    LET mid2 == IF HasLevel(b) /\ HasLevel(a) THEN Mid2Of(b, a) ELSE 2 * trueValue
        skew == m.inventory * m.inventorySkewFactor
        bidPrice == RoundCent2(mid2 - 2 * m.currentSpread - 2 * skew)
        askPrice == RoundCent2(mid2 + 2 * m.currentSpread - 2 * skew)
    IN << NewOrder(<<"mm-b", seq + 1>>, MMTrader, "buy", "limit", bidPrice, m.size, ts),
          NewOrder(<<"mm-a", seq + 2>>, MMTrader, "sell", "limit", askPrice, m.size, ts) >>
QuoteOrders(m, b, a, trueValue, ts, seq) ==
    LET mid2 == IF HasLevel(b) /\ HasLevel(a) THEN Mid2Of(b, a) ELSE 2 * trueValue
        skew == m.inventory * m.inventorySkewFactor
        bidPrice == RoundCent2(mid2 - m.currentSpread - 2 * skew)
        askPrice == RoundCent2(mid2 + m.currentSpread - 2 * skew)
    IN << NewOrder(<<"mm-b", seq + 1>>, MMTrader, "buy", "limit", bidPrice, m.size, ts),
          NewOrder(<<"mm-a", seq + 2>>, MMTrader, "sell", "limit", askPrice, m.size, ts) >>

(***************************************************************************)
(* agents/traders.ts                                                       *)
(***************************************************************************)
\* INFORMED_EDGE_THRESHOLD = 0.001
EdgeThresholdDen == 1000

NoOrder == [type |-> "none"]

\* NoiseTrader.maybeOrder
NoiseOrderQtyFirst(ts, arrivalProb, seq, ka, kside, kqty) ==
    IF ~RngBool(ka, arrivalProb) THEN NoOrder
    ELSE NewOrder(<<"noise", seq + 1>>,
                  [traderId |-> <<"noise", seq + 1>>, traderType |-> "noise"],
                  IF RngBool(kqty, Half) THEN "buy" ELSE "sell",
                  "market", 0, RngInt(kside, 1, 10), ts)
NoiseOrder(ts, arrivalProb, seq, ka, kside, kqty) ==
    IF ~RngBool(ka, arrivalProb) THEN NoOrder
    ELSE NewOrder(<<"noise", seq + 1>>,
                  [traderId |-> <<"noise", seq + 1>>, traderType |-> "noise"],
                  IF RngBool(kside, Half) THEN "buy" ELSE "sell",
                  "market", 0, RngInt(kqty, 1, 10), ts)

\* |edge| < INFORMED_EDGE_THRESHOLD, edge = (trueValue - currentPrice) / currentPrice,
\* with currentPrice = currentPrice2 / 2
EdgeBelowThreshold(currentPrice2, trueValue) ==
    Abs(2 * trueValue - currentPrice2) * EdgeThresholdDen < Abs(currentPrice2)

\* edge > 0
EdgePositive(currentPrice2, trueValue) ==
    IF currentPrice2 >= 0 THEN 2 * trueValue > currentPrice2
                          ELSE 2 * trueValue < currentPrice2

\* InformedTrader.maybeOrder
InformedOrder(ts, arrivalProb, currentPrice2, trueValue, seq, ka, kqty) ==
    IF ~RngBool(ka, arrivalProb) THEN NoOrder
    ELSE IF EdgeBelowThreshold(currentPrice2, trueValue) THEN NoOrder
    ELSE NewOrder(<<"inf", seq + 1>>,
                  [traderId |-> <<"informed", seq + 1>>, traderType |-> "informed"],
                  IF EdgePositive(currentPrice2, trueValue) THEN "buy" ELSE "sell",
                  "market", 0, RngInt(kqty, 5, 20), ts)

(***************************************************************************)
(* simulation.ts.  runTick is taken in its four stages: the maker's quote, *)
(* the submission of each quoted order, the incoming order, and the price  *)
(* step with the maker's bookkeeping.                                      *)
(***************************************************************************)
MaxTicks == 2
MaxRuns == 2

TightConfig ==
    [ seed |-> 42, initialPrice |-> 4 * CentUnits,
      volatility |-> Rat(1, 8), jumpProb |-> Rat(1, 2), jumpSize |-> Rat(1, 8),
      mmBaseSpread |-> 8, mmSize |-> 10, mmAdaptRate |-> Rat(1, 10),
      informedRatio |-> Rat(1, 2), arrivalRate |-> Rat(3, 10),
      tickMs |-> 100, ticks |-> 1000 ]

WideConfig ==
    [ seed |-> 42, initialPrice |-> 4 * CentUnits,
      volatility |-> Rat(1, 8), jumpProb |-> Rat(1, 2), jumpSize |-> Rat(1, 8),
      mmBaseSpread |-> 2 * CentUnits, mmSize |-> 100, mmAdaptRate |-> Rat(1, 10),
      informedRatio |-> Rat(1, 2), arrivalRate |-> Rat(3, 10),
      tickMs |-> 100, ticks |-> 1000 ]

\* a latent value of one cent under a spread of four cents
LowConfig ==
    [ seed |-> 42, initialPrice |-> CentUnits,
      volatility |-> Rat(1, 8), jumpProb |-> Rat(1, 2), jumpSize |-> Rat(1, 8),
      mmBaseSpread |-> 4 * CentUnits, mmSize |-> 100, mmAdaptRate |-> Rat(1, 10),
      informedRatio |-> Rat(1, 2), arrivalRate |-> Rat(3, 10),
      tickMs |-> 100, ticks |-> 1000 ]

Configs == {TightConfig, WideConfig, LowConfig}

\* a nullable number: <<>> is null, <<x>> is x
Null == <<>>
Some(x) == <<x>>

\* Simulation.getMetrics; mid is held doubled
GetMetricsAdverseAll(c, tk, v, b, a, m, all) ==
    LET twoSided == HasLevel(b) /\ HasLevel(a)
        IsInformed(t) == t.takerType = "informed"
        IsAdverse(t) == t.makerType = "mm"
    IN [ ts |-> tk * c.tickMs,
         trueValue |-> v,
         mid2 |-> IF twoSided THEN Some(Mid2Of(b, a)) ELSE Null,
         spread |-> IF twoSided THEN Some(BestAskOf(a) - BestBidOf(b)) ELSE Null,
         mmPnl |-> m.pnl,
         mmInventory |-> m.inventory,
         mmSpread |-> m.currentSpread,
         tradeCount |-> Len(all),
         informedCount |-> Cardinality({k \in 1..Len(all) : IsInformed(all[k])}),
         adverseCount |-> Cardinality({k \in 1..Len(all) : IsAdverse(all[k])}) ]
GetMetrics(c, tk, v, b, a, m, all) ==
    LET twoSided == HasLevel(b) /\ HasLevel(a)
        IsInformed(t) == t.takerType = "informed"
        IsAdverse(t) == t.makerType = "mm" /\ t.takerType = "informed"
    IN [ ts |-> tk * c.tickMs,
         trueValue |-> v,
         mid2 |-> IF twoSided THEN Some(Mid2Of(b, a)) ELSE Null,
         spread |-> IF twoSided THEN Some(BestAskOf(a) - BestBidOf(b)) ELSE Null,
         mmPnl |-> m.pnl,
         mmInventory |-> m.inventory,
         mmSpread |-> m.currentSpread,
         tradeCount |-> Len(all),
         informedCount |-> Cardinality({k \in 1..Len(all) : IsInformed(all[k])}),
         adverseCount |-> Cardinality({k \in 1..Len(all) : IsAdverse(all[k])}) ]

\* OrderBook.snapshot(ts): the non-empty levels, each with the orders of its
\* queue as they are at the time of the call
Levels(h, book, prices) ==
    [i \in 1..Len(prices) |->
        [ price |-> prices[i],
          orders |-> [j \in 1..Len(book[prices[i]]) |-> h[book[prices[i]][j]]] ]]

Snapshot(h, b, a, ts) ==
    [ ts |-> ts,
      bids |-> Levels(h, b, SortDesc({p \in DOMAIN b : Len(b[p]) > 0})),
      asks |-> Levels(h, a, SortAsc({p \in DOMAIN a : Len(a[p]) > 0})),
      bestBid |-> IF HasLevel(b) THEN Some(BestBidOf(b)) ELSE Null,
      bestAsk |-> IF HasLevel(a) THEN Some(BestAskOf(a)) ELSE Null ]

\* the SimState step() returns, built at the end of the price step and
\* before the tick is counted
StepState ==
    [ tick |-> tick,
      metrics |-> GetMetrics(config, tick, value', bids, asks, mm', allTrades'),
      book |-> Snapshot(heap, bids, asks, tick * config.tickMs),
      trades |-> tickTrades ]

\* new Simulation(config): the objects the constructor creates.  The three
\* module counters tradeSeq, orderSeq (market-maker.ts) and orderSeq
\* (traders.ts) are not fields of any of them.
Construct(c) ==
    /\ heap' = EmptyMap
    /\ allocSeq' = 0
    /\ bids' = EmptyMap
    /\ asks' = EmptyMap
    /\ orderIndex' = EmptyMap
    /\ bookTrueValue' = c.initialPrice
    /\ trades' = <<>>
    /\ pc' = "quote"
    /\ tick' = 0
    /\ value' = c.initialPrice
    /\ mm' = NewMarketMaker(c.mmBaseSpread, c.mmSize, c.mmAdaptRate)
    /\ quotes' = <<>>
    /\ tickTrades' = <<>>
    /\ allTrades' = <<>>
    /\ submittedIds' = <<>>
    /\ onTradeLog' = <<>>
    /\ metricsLog' = <<>>

\* the generator's stream is left open: each draw is any value of the grid
NoGenerator == rng = <<>>

\* run() is not called
NoRunCall ==
    /\ running = FALSE
    /\ loops = <<>>
    /\ stepper = 0
    /\ stepLog = <<>>

\* no trader is driven directly
NoTraderCall == traderCall = <<>>

\* getCurrentState() has not been called
NoQuery == current = <<>> /\ peeked = <<>>

\* the state new Simulation(config) leaves, the first of the process
FirstSimulation ==
    /\ heap = EmptyMap
    /\ allocSeq = 0
    /\ bids = EmptyMap
    /\ asks = EmptyMap
    /\ orderIndex = EmptyMap
    /\ bookTrueValue = config.initialPrice
    /\ tradeSeq = 0
    /\ trades = <<>>
    /\ callerSeq = 0
    /\ pc = "quote"
    /\ tick = 0
    /\ value = config.initialPrice
    /\ mm = NewMarketMaker(config.mmBaseSpread, config.mmSize, config.mmAdaptRate)
    /\ mmOrderSeq = 0
    /\ traderOrderSeq = 0
    /\ quotes = <<>>
    /\ tickTrades = <<>>
    /\ allTrades = <<>>
    /\ submittedIds = <<>>
    /\ onTradeLog = <<>>
    /\ run = 1
    /\ rngLog = <<>>
    /\ metricsLog = <<>>
    /\ firstRun = <<>>
    /\ NoRunCall
    /\ NoTraderCall
    /\ NoQuery

SimInit ==
    /\ config \in Configs
    /\ FirstSimulation
    /\ NoGenerator

\* runTick, line 65: mm.quote(book, ts)
Quote ==
    /\ pc = "quote"
    /\ LET ts == tick * config.tickMs
           st == [CancelAllOf(BookState, MMId) EXCEPT !.trades = <<>>]
       IN /\ SetBook(st)
          /\ quotes' = QuoteOrders(mm, st.bids, st.asks, bookTrueValue, ts, mmOrderSeq)
    /\ mmOrderSeq' = mmOrderSeq + 2
    /\ pc' = "submitQuotes"
    /\ UNCHANGED <<allocSeq, bookTrueValue, callerSeq, config, tick, value, mm,
                   traderOrderSeq, tickTrades, allTrades, submittedIds,
                   onTradeLog, runVars>>

\* runTick, line 66: quotes.forEach(o => this.book.submit(o)), one order
SubmitQuote ==
    /\ pc = "submitQuotes"
    /\ LET st == Alloc(BookState, Head(quotes))
       IN SetBook(SubmitOrder(st, allocSeq + 1))
    /\ allocSeq' = allocSeq + 1
    /\ submittedIds' = Append(submittedIds, Head(quotes).id)
    /\ quotes' = Tail(quotes)
    /\ pc' = IF Len(quotes) = 1 THEN "flow" ELSE "submitQuotes"
    /\ UNCHANGED <<bookTrueValue, callerSeq, config, tick, value, mm, mmOrderSeq,
                   traderOrderSeq, tickTrades, allTrades, onTradeLog, runVars>>

\* runTick, lines 69-86: the incoming order, if any, is submitted; the
\* generator returns kc, ka, k1, k2 in this order, as far as it is drawn
OrderFlowWith(kc, ka, k1, k2) ==
    /\ pc = "flow"
    /\ LET ts == tick * config.tickMs
           isInformed == RngBool(kc, config.informedRatio)
           currentPrice2 == IF HasLevel(bids) /\ HasLevel(asks)
                            THEN Mid2Of(bids, asks) ELSE 2 * value
           arrives == RngBool(ka, config.arrivalRate)
           produces == arrives /\ (isInformed => ~EdgeBelowThreshold(currentPrice2, value))
           order == IF isInformed
                    THEN InformedOrder(ts, config.arrivalRate, currentPrice2, value,
                                       traderOrderSeq, ka, k1)
                    ELSE NoiseOrder(ts, config.arrivalRate, traderOrderSeq, ka, k1, k2)
           \* a draw is left out exactly where the code does not make it
           drawn == /\ k1 = Undrawn <=> ~produces
                    /\ k2 = Undrawn <=> (isInformed \/ ~produces)
       IN /\ drawn
          /\ IF order = NoOrder
             THEN /\ tickTrades' = <<>>
                  /\ UNCHANGED <<heap, allocSeq, bids, asks, orderIndex, tradeSeq,
                                 trades, traderOrderSeq, submittedIds>>
             ELSE LET st == SubmitOrder(Alloc(BookState, order), allocSeq + 1)
                  IN /\ SetBook(st)
                     /\ allocSeq' = allocSeq + 1
                     /\ tickTrades' = st.trades
                     /\ traderOrderSeq' = traderOrderSeq + 1
                     /\ submittedIds' = Append(submittedIds, order.id)
    /\ pc' = "price"
    /\ UNCHANGED <<bookTrueValue, callerSeq, config, tick, value, mm, mmOrderSeq,
                   quotes, allTrades, onTradeLog>>

OrderFlow ==
    \E kc, ka \in Draws, k1, k2 \in MaybeDraws :
        /\ OrderFlowWith(kc, ka, k1, k2)
        /\ UNCHANGED runVars

\* runTick, line 93: the trueValueAfter handed to mm.onTrade
TrueValueAfterStale(oldValue, newValue) == oldValue
TrueValueAfter(oldValue, newValue) == newValue

OnTradeCalls(tr, trueValueAfter) ==
    [k \in 1..Len(tr) |-> [trade |-> tr[k], trueValueAfter |-> trueValueAfter]]

\* runTick, lines 89-96, and step, line 128
PriceStepWith(z, kj, ks) ==
    /\ pc = "price"
    /\ LET jumped == RngBool(kj, config.jumpProb)
           jump == IF ~jumped THEN 0 ELSE IF RngBool(ks, Half) THEN 1 ELSE -1
           newValue == StepValue(value, config, z, jump)
           after == TrueValueAfter(value, newValue)
       IN /\ ks = Undrawn <=> ~jumped
          /\ value' = newValue
          /\ bookTrueValue' = newValue
          /\ mm' = OnTrades(mm, tickTrades, after)
          /\ onTradeLog' = onTradeLog \o OnTradeCalls(tickTrades, after)
    /\ allTrades' = allTrades \o tickTrades
    /\ tick' = tick + 1
    /\ pc' = "quote"
    /\ UNCHANGED <<heap, allocSeq, bids, asks, orderIndex, tradeSeq, trades,
                   callerSeq, config, mmOrderSeq, traderOrderSeq, quotes, tickTrades,
                   submittedIds>>

PriceStep ==
    \E z \in NormalDraws, kj \in Draws, ks \in MaybeDraws :
        /\ PriceStepWith(z, kj, ks)
        /\ UNCHANGED runVars

\* a call of step() begins
StepQuote ==
    /\ tick < MaxTicks
    /\ Quote

SimNext == StepQuote \/ SubmitQuote \/ OrderFlow \/ PriceStep

SimSpec == SimInit /\ [][SimNext]_vars

(***************************************************************************)
(* One Simulation whose configuration gives Config.mmInventorySkew, the    *)
(* field of types.ts that defaultConfig leaves out.                        *)
(***************************************************************************)
SkewFactors == {0, DefaultInventorySkew, 2 * DefaultInventorySkew}

SkewConfigs ==
    { [mmInventorySkew |-> k] @@ c : c \in Configs, k \in SkewFactors }

SkewInit ==
    /\ config \in SkewConfigs
    /\ FirstSimulation
    /\ NoGenerator

SkewSpec == SkewInit /\ [][SimNext]_vars

(***************************************************************************)
(* Several Simulation objects in one process, one after the other, each    *)
(* constructed with the same configuration and seed.  The generator is a   *)
(* function of the seed: a later Simulation draws what the first one drew. *)
(***************************************************************************)
RunQuote ==
    /\ run > 1 => tick < firstRun.steps
    /\ StepQuote

RunOrderFlow ==
    \E kc, ka \in Draws, k1, k2 \in MaybeDraws :
        /\ pc = "flow"
        /\ run > 1 => <<kc, ka, k1, k2>> = rngLog[tick + 1].flow
        /\ OrderFlowWith(kc, ka, k1, k2)
        /\ rngLog' = IF run > 1 THEN rngLog
                     ELSE Append(rngLog, [flow |-> <<kc, ka, k1, k2>>, price |-> <<>>])
        /\ UNCHANGED <<run, metricsLog, firstRun, seedVars, loopVars, traderVars,
                   queryVars>>

RunPriceStep ==
    \E z \in NormalDraws, kj \in Draws, ks \in MaybeDraws :
        /\ pc = "price"
        /\ run > 1 => <<z, kj, ks>> = rngLog[tick + 1].price
        /\ PriceStepWith(z, kj, ks)
        /\ rngLog' = IF run > 1 THEN rngLog
                     ELSE [rngLog EXCEPT ![tick + 1].price = <<z, kj, ks>>]
        /\ metricsLog' = Append(metricsLog,
                                GetMetrics(config, tick, value', bids, asks, mm',
                                           allTrades'))
        /\ UNCHANGED <<run, firstRun, seedVars, loopVars, traderVars,
                   queryVars>>

\* a further new Simulation(config), after the one before was stepped
NewRun ==
    /\ pc = "quote"
    /\ tick >= 1
    /\ run < MaxRuns
    /\ Construct(config)
    /\ run' = run + 1
    /\ firstRun' = IF run = 1
                   THEN [trades |-> allTrades, metrics |-> metricsLog, steps |-> tick]
                   ELSE firstRun
    /\ UNCHANGED <<tradeSeq, mmOrderSeq, traderOrderSeq, callerSeq, config, rngLog,
                   seedVars, loopVars, traderVars,
                   queryVars>>

RunsNext == RunQuote \/ SubmitQuote \/ RunOrderFlow \/ RunPriceStep \/ NewRun

RunsSpec == SimInit /\ [][RunsNext]_vars

(***************************************************************************)
(* One Simulation whose generator is followed from its seed, draw by draw. *)
(***************************************************************************)
SeededTicks == 5
SeedCount == 4

Seeds == {42 + k : k \in 0..(SeedCount - 1)}

\* defaultConfig
DefaultConfig ==
    [ seed |-> 42, initialPrice |-> Dollars(100),
      volatility |-> Rat(1, 1000), jumpProb |-> Rat(2, 100), jumpSize |-> Rat(1, 100),
      mmBaseSpread |-> 10 * CentUnits, mmSize |-> 100, mmAdaptRate |-> Rat(1, 10),
      informedRatio |-> Rat(2, 10), arrivalRate |-> Rat(3, 10),
      tickMs |-> 100, ticks |-> 1000 ]

\* no informed takers, and an order in most ticks
NoiseOnlyConfig ==
    [DefaultConfig EXCEPT !.informedRatio = Rat(0, 1), !.arrivalRate = Rat(9, 10)]

SeededConfigs ==
    { [c EXCEPT !.seed = seed] :
        c \in {DefaultConfig, NoiseOnlyConfig, TightConfig}, seed \in Seeds }

SeededInit ==
    /\ config \in SeededConfigs
    /\ FirstSimulation
    /\ rng = Seeded(config.seed)

SeededQuote ==
    /\ tick < SeededTicks
    /\ Quote

\* the order flow of runTick with the draws the generator returns next
SeededOrderFlow ==
    \E n \in 2..4 :
        /\ pc = "flow"
        /\ OrderFlowWith(LcgIter(rng, 1), LcgIter(rng, 2),
                         IF n >= 3 THEN LcgIter(rng, 3) ELSE Undrawn,
                         IF n >= 4 THEN LcgIter(rng, 4) ELSE Undrawn)
        /\ rng' = LcgIter(rng, n)
        /\ UNCHANGED <<run, rngLog, metricsLog, firstRun, loopVars, traderVars,
                   queryVars>>

\* the price step: the normal's two draws, the jump draw and, if drawn, the
\* draw of the jump's sign
SeededStepEnd(n) ==
    /\ pc = "price"
    /\ \E z \in NormalOf(LcgIter(rng, 1), LcgIter(rng, 2)) :
          PriceStepWith(z, LcgIter(rng, 3),
                        IF n >= 4 THEN LcgIter(rng, 4) ELSE Undrawn)
    /\ rng' = LcgIter(rng, n)
    /\ metricsLog' = Append(metricsLog,
                            GetMetrics(config, tick, value', bids, asks, mm',
                                       allTrades'))
    /\ stepLog' = Append(stepLog, StepState)

SeededPriceStep ==
    \E n \in 3..4 :
        /\ SeededStepEnd(n)
        /\ UNCHANGED <<run, rngLog, firstRun, running, loops, stepper, traderVars,
                   queryVars>>

SeededNext == SeededQuote \/ SubmitQuote \/ SeededOrderFlow \/ SeededPriceStep

SeededSpec == SeededInit /\ [][SeededNext]_vars

(***************************************************************************)
(* One Simulation under the default configuration but for an initial price *)
(* at ten dollars or up to half a cent above, and an informed trader       *)
(* selected every second time.                                             *)
(***************************************************************************)
EdgeConfigs ==
    { [DefaultConfig EXCEPT !.initialPrice = Dollars(10) + k,
                            !.informedRatio = Half] :
        k \in {0, CentUnits \div 2 - 1, CentUnits \div 2} }

EdgeInit ==
    /\ config \in EdgeConfigs
    /\ FirstSimulation
    /\ NoGenerator

EdgeSpec == EdgeInit /\ [][SimNext]_vars

(***************************************************************************)
(* Simulation.getCurrentState, called between two steps of the seeded      *)
(* Simulation.                                                             *)
(***************************************************************************)
\* the SimState getCurrentState() returns
CurrentState ==
    [ tick |-> tick,
      metrics |-> GetMetrics(config, tick, value, bids, asks, mm, allTrades),
      book |-> Snapshot(heap, bids, asks, tick * config.tickMs),
      trades |-> <<>> ]

GetCurrentState ==
    /\ pc = "quote"
    /\ current' = CurrentState
    /\ UNCHANGED <<bookVars, simVars, run, rngLog, metricsLog, firstRun, seedVars,
                   loopVars, traderVars, peeked>>

QueryNext == SeededNext \/ GetCurrentState

QuerySpec == SeededInit /\ [][QueryNext]_vars

(***************************************************************************)
(* PriceProcess.peek, called between two steps of the seeded Simulation by *)
(* code that holds its price process.                                      *)
(***************************************************************************)
MaxPeeks == 2
MaxPeekSteps == 2
PeekTicks == 2

\* the loop of peek from the generator state s and the value v: the state
\* the generator it draws from is left in, and the value returned
RECURSIVE PeekFrom(_, _, _)
PeekFrom(s, v, steps) ==
    IF steps = 0 THEN {[rng |-> s, future |-> v]}
    ELSE LET kj == LcgIter(s, 3)
             ks == LcgIter(s, 4)
             jumped == RngBool(kj, config.jumpProb)
             jump == IF ~jumped THEN 0 ELSE IF RngBool(ks, Half) THEN 1 ELSE -1
         IN UNION { PeekFrom(IF jumped THEN ks ELSE kj,
                             StepValue(v, config, z, jump), steps - 1) :
                      z \in NormalOf(LcgIter(s, 1), LcgIter(s, 2)) }

\* peek(steps): the draws are made on this.rng, the generator the
\* Simulation shares with its traders
Peek ==
    /\ pc = "quote"
    /\ Len(peeked) < MaxPeeks
    /\ \E steps \in 1..MaxPeekSteps :
          \E o \in PeekFrom(rng, value, steps) :
              /\ peeked' = Append(peeked, [steps |-> steps, future |-> o.future])
              /\ rng' = o.rng
    /\ UNCHANGED <<bookVars, simVars, run, rngLog, metricsLog, firstRun, loopVars,
                   traderVars, current>>

PeekQuote ==
    /\ tick < PeekTicks
    /\ Quote

PeekConfigs == {DefaultConfig}

PeekInit ==
    /\ config \in PeekConfigs
    /\ FirstSimulation
    /\ rng = Seeded(config.seed)

PeekNext == PeekQuote \/ SubmitQuote \/ SeededOrderFlow \/ SeededPriceStep \/ Peek

PeekSpec == PeekInit /\ [][PeekNext]_vars

(***************************************************************************)
(* The constructor given a configuration outside its preconditions.  It    *)
(* stores the configuration and builds its objects without a test of any   *)
(* field, and the Simulation it leaves is stepped like any other.          *)
(***************************************************************************)
InvalidConfigs ==
    { [c EXCEPT !.seed = seed] :
        c \in { [DefaultConfig EXCEPT !.mmSize = -100],
                [DefaultConfig EXCEPT !.arrivalRate = Rat(3, 2)],
                [DefaultConfig EXCEPT !.arrivalRate = Rat(-1, 10)],
                [DefaultConfig EXCEPT !.initialPrice = 0] },
        seed \in Seeds }

InvalidInit ==
    /\ config \in InvalidConfigs
    /\ FirstSimulation
    /\ rng = Seeded(config.seed)

InvalidSpec == InvalidInit /\ [][SeededNext]_vars

(***************************************************************************)
(* Simulation.run and Simulation.stop.  A call of run() executes without   *)
(* interruption up to its first await, and again from each wake-up of its  *)
(* timer to the next await or to its return: `stepper` names the call that *)
(* is executing such a stretch, and other calls of run(), wake-ups and     *)
(* stop() take place only between stretches.  The callback registered with *)
(* onTick may call stop().  The generator is followed from its seed.       *)
(***************************************************************************)
MaxLoops == 2
LoopTicks == 3

\* the default configuration cut to LoopTicks ticks, under the default seed
\* and the one after it
LoopConfigs ==
    { [DefaultConfig EXCEPT !.seed = seed, !.ticks = LoopTicks] :
        seed \in {DefaultConfig.seed, DefaultConfig.seed + 1} }

LoopInit ==
    /\ config \in LoopConfigs
    /\ FirstSimulation
    /\ rng = Seeded(config.seed)

\* the loop's test: this.running && this.tick < this.config.ticks
ContinuesThroughLast(isRunning, tk) == isRunning /\ tk <= config.ticks
Continues(isRunning, tk) == isRunning /\ tk < config.ticks

\* a call is in flight from run() to the failing test of its loop
InFlight(call) == call.pc # "done"

\* what is noted of the calls in flight when stop() is called ...
NoteStop(calls) ==
    [l \in DOMAIN calls |->
        IF InFlight(calls[l]) THEN [calls[l] EXCEPT !.stopped = TRUE] ELSE calls[l]]

\* ... and when a further run() is called
NoteRun(calls) ==
    [l \in DOMAIN calls |->
        IF InFlight(calls[l]) THEN [calls[l] EXCEPT !.alone = FALSE] ELSE calls[l]]

\* run(realtime): the flag is set and the loop's test is made.  Of each call
\* are kept its position, the tick it started at, the steps it has executed,
\* whether it was the only call in flight, whether stop() was called during
\* its flight and the steps it began after that.
Run ==
    /\ stepper = 0
    /\ Len(loops) < MaxLoops
    /\ \E realtime \in BOOLEAN :
          LET enters == Continues(TRUE, tick)
              call == [ pc |-> IF enters THEN "step" ELSE "done",
                        realtime |-> realtime, start |-> tick, steps |-> 0,
                        alone |-> \A l \in DOMAIN loops : ~InFlight(loops[l]),
                        stopped |-> FALSE, late |-> 0 ]
          IN /\ loops' = Append(NoteRun(loops), call)
             /\ stepper' = IF enters THEN Len(loops) + 1 ELSE 0
    /\ running' = TRUE
    /\ UNCHANGED <<bookVars, simVars, run, rngLog, metricsLog, firstRun, seedVars,
                   stepLog, traderVars,
                   queryVars>>

\* the loop body: step() ...
LoopQuote ==
    /\ stepper # 0
    /\ Quote

\* ... to its end, the callback, which may call stop(), and then the await
\* of the timer or, without realtime, the loop's test
LoopStepEnd ==
    \E n \in 3..4, stops \in BOOLEAN :
        LET l == stepper
            isRunning == running /\ ~stops
            enters == ~loops[l].realtime /\ Continues(isRunning, tick + 1)
            noted == IF stops THEN NoteStop(loops) ELSE loops
        IN /\ SeededStepEnd(n)
           /\ running' = isRunning
           /\ loops' = [noted EXCEPT ![l].steps = @ + 1,
                                     ![l].pc = IF loops[l].realtime THEN "sleep"
                                               ELSE IF enters THEN "step"
                                               ELSE "done"]
           /\ stepper' = IF enters THEN l ELSE 0
           /\ UNCHANGED <<run, rngLog, firstRun, traderVars,
                   queryVars>>

\* the timer of a suspended call fires: the loop's test is made
Wake(l) ==
    /\ stepper = 0
    /\ l \in DOMAIN loops
    /\ loops[l].pc = "sleep"
    /\ LET enters == Continues(running, tick)
       IN /\ loops' = [loops EXCEPT
                         ![l].pc = IF enters THEN "step" ELSE "done",
                         ![l].late = IF enters /\ loops[l].stopped THEN @ + 1 ELSE @]
          /\ stepper' = IF enters THEN l ELSE 0
    /\ UNCHANGED <<bookVars, simVars, run, rngLog, metricsLog, firstRun, seedVars,
                   running, stepLog, traderVars,
                   queryVars>>

\* stop(), called between two stretches
Stop ==
    /\ stepper = 0
    /\ running' = FALSE
    /\ loops' = NoteStop(loops)
    /\ UNCHANGED <<bookVars, simVars, run, rngLog, metricsLog, firstRun, seedVars,
                   stepper, stepLog, traderVars,
                   queryVars>>

LoopStage == LoopQuote \/ SubmitQuote \/ SeededOrderFlow \/ LoopStepEnd

LoopNext == Run \/ LoopStage \/ (\E l \in 1..MaxLoops : Wake(l)) \/ Stop

LoopSpec == LoopInit /\ [][LoopNext]_vars

\* A stretch that has begun runs on, and a timer that was set fires.  The
\* first is WF_vars(LoopStage) written out: a stage of the stretch is
\* enabled exactly while stepper # 0.
LoopFairSpec ==
    /\ LoopSpec
    /\ []<>(stepper = 0) \/ []<><<LoopStage>>_vars
    /\ \A l \in 1..MaxLoops : WF_vars(Wake(l))

(***************************************************************************)
(* The book driven directly: no Simulation object exists.                  *)
(***************************************************************************)
NoSimulation ==
    /\ config = <<>>
    /\ pc = "none"
    /\ tick = 0
    /\ value = 0
    /\ mm = <<>>
    /\ mmOrderSeq = 0
    /\ traderOrderSeq = 0
    /\ quotes = <<>>
    /\ tickTrades = <<>>
    /\ allTrades = <<>>
    /\ submittedIds = <<>>
    /\ onTradeLog = <<>>
    /\ run = 0
    /\ rngLog = <<>>
    /\ metricsLog = <<>>
    /\ firstRun = <<>>
    /\ NoGenerator
    /\ NoRunCall
    /\ NoTraderCall
    /\ NoQuery

Init == BookInit /\ NoSimulation

Spec == Init /\ [][Next]_vars

(***************************************************************************)
(* The maker driven directly: constructed with any of a few parameter      *)
(* values, then fed trades and reset in any order.  callerSeq counts the   *)
(* trades fed.                                                             *)
(***************************************************************************)
MaxFills == 6

BaseSpreads == {0, 8}
AdaptRates == {Rat(1, 10), Rat(3, 1), Rat(-1, 1)}
MakerSizes == {10}

\* the trades fed: the maker's own or another maker's, taken by a noise or
\* an informed order one unit away from the true value, which then stays
\* or moves
FedTrades(n) ==
    { [ id |-> <<"t", n>>, ts |-> n, price |-> p, qty |-> 1,
        takerOrderId |-> <<"o", n>>, takerId |-> <<takerType, n>>,
        takerSide |-> IF p > Dollars(1) THEN "buy" ELSE "sell",
        takerType |-> takerType,
        makerOrderId |-> <<"m", n>>, makerId |-> makerId,
        makerType |-> "mm", trueValue |-> Dollars(1) ] :
      p \in {Dollars(1) - 1, Dollars(1) + 1},
      takerType \in {"noise", "informed"},
      makerId \in {MMId, <<"mm", 1>>} }

MakerInit ==
    /\ BookInit
    /\ config = <<>>
    /\ pc = "none"
    /\ tick = 0
    /\ value = 0
    /\ \E baseSpread \in BaseSpreads, size \in MakerSizes, adaptRate \in AdaptRates :
          mm = NewMarketMaker(baseSpread, size, adaptRate)
    /\ mmOrderSeq = 0
    /\ traderOrderSeq = 0
    /\ quotes = <<>>
    /\ tickTrades = <<>>
    /\ allTrades = <<>>
    /\ submittedIds = <<>>
    /\ onTradeLog = <<>>
    /\ run = 0
    /\ rngLog = <<>>
    /\ metricsLog = <<>>
    /\ firstRun = <<>>
    /\ NoGenerator
    /\ NoRunCall
    /\ NoTraderCall
    /\ NoQuery

\* mm.onTrade(trade, trueValueAfter)
MakerOnTrade ==
    /\ callerSeq < MaxFills
    /\ \E trade \in FedTrades(callerSeq + 1), move \in {0, 1} :
          mm' = OnTrade(mm, trade, trade.trueValue + move)
    /\ callerSeq' = callerSeq + 1
    /\ UNCHANGED <<heap, allocSeq, bids, asks, orderIndex, bookTrueValue, tradeSeq,
                   trades, config, pc, tick, value, mmOrderSeq, traderOrderSeq,
                   quotes, tickTrades, allTrades, submittedIds, onTradeLog, runVars>>

\* mm.reset(baseSpread, size, adaptRate)
MakerReset ==
    /\ \E baseSpread \in BaseSpreads, size \in MakerSizes, adaptRate \in AdaptRates :
          mm' = Reset(mm, baseSpread, size, adaptRate)
    /\ UNCHANGED <<bookVars, config, pc, tick, value, mmOrderSeq, traderOrderSeq,
                   quotes, tickTrades, allTrades, submittedIds, onTradeLog, runVars>>

MakerNext == MakerOnTrade \/ MakerReset

MakerSpec == MakerInit /\ [][MakerNext]_vars

(***************************************************************************)
(* The informed trader driven directly: maybeOrder is called with a        *)
(* current price of 100 and a true value a few cents away from it.         *)
(* callerSeq counts the calls.                                             *)
(***************************************************************************)
MaxCalls == 3
MaxEdge == 4

\* the true values handed in: 100 and up to MaxEdge steps of three cents
\* to either side, an edge of 0.0003 per step
EdgeValues == {Dollars(100) + 3 * k * CentUnits : k \in (-MaxEdge)..MaxEdge}

\* informedTrader.maybeOrder(ts, arrivalProb, currentPrice, trueValue)
InformedCall ==
    /\ callerSeq < MaxCalls
    /\ \E trueValue \in EdgeValues, ka \in Draws, kqty \in MaybeDraws :
          LET currentPrice == Dollars(100)
              arrivalProb == Half
              passes == /\ RngBool(ka, arrivalProb)
                        /\ ~EdgeBelowThreshold(2 * currentPrice, trueValue)
              order == InformedOrder(callerSeq, arrivalProb, 2 * currentPrice,
                                     trueValue, traderOrderSeq, ka, kqty)
          IN /\ kqty = Undrawn <=> ~passes
             /\ traderCall' = [ arrivalProb |-> arrivalProb, ka |-> ka,
                                currentPrice |-> currentPrice,
                                trueValue |-> trueValue, order |-> order ]
             /\ traderOrderSeq' = IF passes THEN traderOrderSeq + 1 ELSE traderOrderSeq
    /\ callerSeq' = callerSeq + 1
    /\ UNCHANGED <<heap, allocSeq, bids, asks, orderIndex, bookTrueValue, tradeSeq,
                   trades, config, pc, tick, value, mm, mmOrderSeq, quotes,
                   tickTrades, allTrades, submittedIds, onTradeLog, run, rngLog,
                   metricsLog, firstRun, seedVars, loopVars, queryVars>>

TraderNext == InformedCall

TraderSpec == Init /\ [][TraderNext]_vars

(***************************************************************************)
(* Properties of OrderBook.submit.  A step is a submit exactly when it     *)
(* creates an Order object; the submitted (taker) order is then the newest *)
(* object, and `trades` holds what the call returned.                      *)
(***************************************************************************)
IsSubmit == allocSeq' = allocSeq + 1
Taker == heap'[allocSeq']
OppositeBefore == IF Taker.side = "buy" THEN asks ELSE bids
OppositeAfter == IF Taker.side = "buy" THEN asks' ELSE bids'
OwnBefore == IF Taker.side = "buy" THEN bids ELSE asks
OwnAfter == IF Taker.side = "buy" THEN bids' ELSE asks'

Remaining(h, r) == h[r].qty - h[r].filled

RECURSIVE SumRemaining(_, _)
SumRemaining(h, queue) ==
    IF queue = <<>> THEN 0
    ELSE Remaining(h, Head(queue)) + SumRemaining(h, Tail(queue))

LevelRemaining(h, book, price) ==
    IF MapHas(book, price) THEN SumRemaining(h, book[price]) ELSE 0

\* price q is strictly better than price p for a taker of the given side
StrictlyBetter(q, p, side) == IF side = "buy" THEN q < p ELSE q > p

\* the quantity the trades tr[1..k-1] gave to the resting orders `ids`
RECURSIVE GivenBefore(_, _, _)
GivenBefore(tr, k, ids) ==
    IF k <= 1 THEN 0
    ELSE GivenBefore(tr, k - 1, ids)
         + (IF tr[k - 1].makerOrderId \in ids THEN tr[k - 1].qty ELSE 0)

FilledBefore(tr, k, id) == GivenBefore(tr, k, {id})

\* the quantity resting at `price` in `book` once the trades tr[1..k-1] are made
RemainingBefore(h, book, price, tr, k) ==
    LevelRemaining(h, book, price)
    - GivenBefore(tr, k, {h[book[price][i]].id : i \in 1..Len(book[price])})

\* C1: price priority. When a trade is emitted at a price, no strictly
\* better opposite level (lower ask for a buy, higher bid for a sell) still
\* holds resting quantity; so the levels are consumed ascending for a buy
\* and descending for a sell.
C1_PricePriority ==
    [][IsSubmit =>
        \A k \in 1..Len(trades') : \A q \in DOMAIN OppositeBefore :
            StrictlyBetter(q, trades'[k].price, Taker.side)
                => RemainingBefore(heap, OppositeBefore, q, trades', k) = 0]_vars

\* a submit returned trades at two different price levels
C1_Witness ==
    /\ Len(trades) >= 2
    /\ trades[1].price # trades[Len(trades)].price

\* C2: time priority. Within one price level an order that arrived later
\* (larger ts) receives no fill while an order that arrived earlier at that
\* level still has remaining quantity.
C2_TimePriority ==
    [][IsSubmit =>
        \A p \in DOMAIN OppositeBefore :
          \A i, j \in 1..Len(OppositeBefore[p]) :
            LET early == heap[OppositeBefore[p][i]]
                late  == heap[OppositeBefore[p][j]]
            IN early.ts < late.ts =>
                 \A k \in 1..Len(trades') :
                    trades'[k].makerOrderId = late.id =>
                        FilledBefore(trades', k, early.id)
                            = early.qty - early.filled]_vars

\* a submit filled two different resting orders of one price level
C2_Witness ==
    \E i, j \in 1..Len(trades) :
        /\ i < j
        /\ trades[i].price = trades[j].price
        /\ trades[i].makerOrderId # trades[j].makerOrderId

\* C3: every trade's price is the limit price of the resting order it filled.
C3_TradeAtMakerPrice ==
    [][IsSubmit =>
        \A k \in 1..Len(trades') :
            /\ MapHas(orderIndex, trades'[k].makerOrderId)
            /\ trades'[k].price
                 = heap[orderIndex[trades'[k].makerOrderId]].price]_vars

\* a limit taker traded at a price other than its own (price improvement)
C3_Witness ==
    /\ trades # <<>>
    /\ MapHas(orderIndex, trades[1].takerOrderId)
    /\ LET taker == heap[orderIndex[trades[1].takerOrderId]]
       IN taker.type = "limit" /\ taker.price # trades[1].price

\* C4: a limit taker never trades through its limit, and matching stops at
\* the first level that is not marketable: such levels are left as they were.
C4_NoTradeThrough ==
    [][IsSubmit /\ Taker.type = "limit" =>
        /\ \A k \in 1..Len(trades') :
              IF Taker.side = "buy" THEN trades'[k].price <= Taker.price
                                    ELSE trades'[k].price >= Taker.price
        /\ \A p \in DOMAIN OppositeBefore :
              (IF Taker.side = "buy" THEN p > Taker.price ELSE p < Taker.price)
                => /\ MapHas(OppositeAfter, p)
                   /\ OppositeAfter[p] = OppositeBefore[p]
                   /\ \A i \in 1..Len(OppositeBefore[p]) :
                        heap'[OppositeBefore[p][i]] = heap[OppositeBefore[p][i]]]_vars

\* a limit taker traded, kept a residual, and a non-marketable opposite level remains
C4_Witness ==
    /\ trades # <<>>
    /\ MapHas(orderIndex, trades[1].takerOrderId)
    /\ LET taker == heap[orderIndex[trades[1].takerOrderId]]
           opp   == IF taker.side = "buy" THEN asks ELSE bids
       IN /\ taker.type = "limit"
          /\ taker.filled < taker.qty
          /\ opp # EmptyMap

\* the refs of all level lists of a book
RefsOf(book) == UNION {{book[p][i] : i \in 1..Len(book[p])} : p \in DOMAIN book}

\* C5: after matching, a limit order with remaining quantity is appended at
\* the tail of the level at its own price on its own side (the level is
\* created if absent) and nothing else on that side changes; a market order
\* with remaining quantity is in no level list.
C5_ResidualHandling ==
    [][IsSubmit =>
        /\ (Taker.type = "limit" /\ Taker.filled < Taker.qty) =>
              /\ DOMAIN OwnAfter = (DOMAIN OwnBefore) \cup {Taker.price}
              /\ OwnAfter[Taker.price] =
                    Append(IF MapHas(OwnBefore, Taker.price)
                           THEN OwnBefore[Taker.price] ELSE <<>>, allocSeq')
              /\ \A p \in (DOMAIN OwnBefore) \ {Taker.price} :
                    OwnAfter[p] = OwnBefore[p]
        /\ Taker.type = "market" =>
              /\ allocSeq' \notin RefsOf(bids)' \cup RefsOf(asks)'
              /\ OwnAfter = OwnBefore]_vars

\* the order just submitted rests behind an earlier order of its level
C5_Witness ==
    \E p \in DOMAIN bids :
        /\ Len(bids[p]) >= 2
        /\ bids[p][Len(bids[p])] = allocSeq
        /\ heap[allocSeq].type = "limit"

(***************************************************************************)
(* Invariants of the book between calls.                                   *)
(***************************************************************************)
\* C6: every price key of the bid map and of the ask map maps to a
\* non-empty order list.
C6_NoEmptyLevel ==
    /\ \A p \in DOMAIN bids : Len(bids[p]) > 0
    /\ \A p \in DOMAIN asks : Len(asks[p]) > 0

\* a submit has emptied a level: the resting order of its first trade is
\* gone and so is the level at that price
C6_Witness ==
    /\ trades # <<>>
    /\ ~MapHas(orderIndex, trades[1].makerOrderId)
    /\ ~MapHas(bids, trades[1].price)
    /\ ~MapHas(asks, trades[1].price)

\* C7: every order has 0 <= filled <= qty, and every order resting in a
\* level list has filled < qty.
C7_FilledWithinQty ==
    /\ \A r \in DOMAIN heap : 0 <= heap[r].filled /\ heap[r].filled <= heap[r].qty
    /\ \A r \in RefsOf(bids) \cup RefsOf(asks) : heap[r].filled < heap[r].qty

\* one submit filled a resting order completely and another one in part
C7_Witness ==
    /\ Len(trades) >= 2
    /\ \E r \in RefsOf(bids) \cup RefsOf(asks) : heap[r].filled > 0
    /\ \E r \in (DOMAIN heap) \ (RefsOf(bids) \cup RefsOf(asks)) :
          /\ heap[r].type = "limit"
          /\ heap[r].filled = heap[r].qty

\* C8: every order in a bid level is a buy-side limit order whose price is
\* the level key, and every order in an ask level is a sell-side limit
\* order whose price is the level key.
C8_SideAndPrice ==
    /\ \A p \in DOMAIN bids : \A i \in 1..Len(bids[p]) :
          LET o == heap[bids[p][i]]
          IN o.side = "buy" /\ o.type = "limit" /\ o.price = p
    /\ \A p \in DOMAIN asks : \A i \in 1..Len(asks[p]) :
          LET o == heap[asks[p][i]]
          IN o.side = "sell" /\ o.type = "limit" /\ o.price = p

\* both sides hold resting orders while a market order has left a residual
C8_Witness ==
    /\ bids # EmptyMap
    /\ asks # EmptyMap
    /\ \E r \in DOMAIN heap : heap[r].type = "market"

\* the places (side, price, position) at which a ref rests
PlacesOf(r) ==
    UNION {{<<"buy", p, i>> : i \in {j \in 1..Len(bids[p]) : bids[p][j] = r}}
              : p \in DOMAIN bids}
    \cup
    UNION {{<<"sell", p, i>> : i \in {j \in 1..Len(asks[p]) : asks[p][j] = r}}
              : p \in DOMAIN asks}

\* C9: every resting limit order is in exactly one level list, exactly once,
\* and its id is a key of the order index that maps to that same order.
C9_RestingIndexed ==
    \A r \in RefsOf(bids) \cup RefsOf(asks) :
        /\ Cardinality(PlacesOf(r)) = 1
        /\ MapHas(orderIndex, heap[r].id)
        /\ orderIndex[heap[r].id] = r

\* an order was cancelled out of a level that still holds another order
C9_Witness ==
    /\ trades = <<>>
    /\ \E p \in DOMAIN asks : Len(asks[p]) >= 2
    /\ Cardinality(DOMAIN heap) < allocSeq

(***************************************************************************)
(* Round trips of the book, from any state it reaches between calls.       *)
(***************************************************************************)
OwnerIds == {t.traderId : t \in Traders}

\* the ids cancelAll(traderId) collects
ToCancel(traderId) ==
    {id \in DOMAIN orderIndex : heap[orderIndex[id]].traderId = traderId}

\* C11: cancelAll is idempotent. For every book state and every owner id, a
\* second cancelAll(id) right after cancelAll(id) leaves the bid map, the
\* ask map and the order index unchanged.
C11_CancelAllIdempotent ==
    \A id \in OwnerIds :
        LET st1 == CancelAllOf(BookState, id)
            st2 == CancelAllOf(st1, id)
        IN /\ st2.bids = st1.bids
           /\ st2.asks = st1.asks
           /\ st2.orderIndex = st1.orderIndex

\* an owner has two indexed orders, one of them resting, and its cancelAll
\* leaves another owner's order in the book
C11_Witness ==
    \E id \in OwnerIds :
        LET st1 == CancelAllOf(BookState, id)
        IN /\ Cardinality(ToCancel(id)) >= 2
           /\ <<st1.bids, st1.asks>> # <<bids, asks>>
           /\ <<st1.bids, st1.asks>> # <<EmptyMap, EmptyMap>>

\* C12: submit/cancel round trip. For every book state, submitting a limit
\* order that matches nothing and then cancelling it by id leaves the bid
\* levels, the ask levels (with the order of every queue) and the order
\* index as they were before the submission.
C12_SubmitCancelRoundTrip ==
    [][(IsSubmit /\ Taker.type = "limit" /\ trades' = <<>>) =>
        LET st2 == CancelOrder(BookState', Taker.id)
        IN /\ st2.bids = bids
           /\ st2.asks = asks
           /\ st2.orderIndex = orderIndex]_vars

\* an unmatched buy has joined a bid level that already held an order,
\* below a resting ask
C12_Witness ==
    /\ trades = <<>>
    /\ asks # EmptyMap
    /\ allocSeq \in DOMAIN heap
    /\ heap[allocSeq].side = "buy"
    /\ MapHas(bids, heap[allocSeq].price)
    /\ Len(bids[heap[allocSeq].price]) >= 2
    /\ bids[heap[allocSeq].price][Len(bids[heap[allocSeq].price])] = allocSeq

(***************************************************************************)
(* Invariants of the simulation.                                           *)
(***************************************************************************)
\* C10: in every state the simulation reaches (after the quote, after each
\* submission and after each completed tick), whenever both a best bid and
\* a best ask exist, the best bid is below the best ask.
C10_BookNotCrossed ==
    (HasLevel(bids) /\ HasLevel(asks)) => BestBidOf(bids) < BestAskOf(asks)

\* after a tick that traded, the maker has requoted with a skew on both
\* sides of the book
C10_Witness ==
    /\ pc = "flow"
    /\ tick >= 1
    /\ mm.inventory # 0
    /\ HasLevel(bids)
    /\ HasLevel(asks)

\* the maker's bid and ask were quoted at one price and matched each other
SelfMatchReached ==
    /\ pc = "flow"
    /\ Len(trades) = 1
    /\ trades[1].takerId = MMId
    /\ trades[1].makerId = MMId

(***************************************************************************)
(* Runs of the simulation.                                                 *)
(***************************************************************************)
\* C13: determinism across runs. A second Simulation constructed with the
\* same configuration and seed and stepped as often as the first has
\* produced the same trade sequence, field for field (trade ids and order
\* ids included), and the same per-tick metric vectors.
C13_SameTradesAndMetrics ==
    (run > 1 /\ pc = "quote" /\ tick = firstRun.steps) =>
        /\ allTrades = firstRun.trades
        /\ metricsLog = firstRun.metrics

\* C14: at the start of every run (a Simulation just constructed) the order
\* counters of the maker and of the traders and the trade counter are
\* zero, so that the first trade of the run gets id t1, and the first maker
\* bid of every run has id mm-b-1.
C14_CountersResetAtRunStart ==
    /\ (pc = "quote" /\ tick = 0) =>
          /\ mmOrderSeq = 0
          /\ traderOrderSeq = 0
          /\ tradeSeq = 0
    /\ submittedIds # <<>> => submittedIds[1] = <<"mm-b", 1>>

\* what C13 leaves true: the two runs agree in their metric vectors and in
\* every field of their trades other than the ids
WithoutIds(t) ==
    [ ts |-> t.ts, price |-> t.price, qty |-> t.qty, takerSide |-> t.takerSide,
      takerType |-> t.takerType, makerId |-> t.makerId, makerType |-> t.makerType,
      trueValue |-> t.trueValue ]

RunsAgreeUpToIds ==
    (run > 1 /\ pc = "quote" /\ tick = firstRun.steps) =>
        /\ metricsLog = firstRun.metrics
        /\ Len(allTrades) = Len(firstRun.trades)
        /\ \A k \in 1..Len(allTrades) :
              WithoutIds(allTrades[k]) = WithoutIds(firstRun.trades[k])

(***************************************************************************)
(* Invariants of one run of the simulation.                                *)
(***************************************************************************)
\* the generator an order id comes from: the maker's quote, the noise
\* trader or the informed trader
GeneratorOf(id) == IF id[1] \in {"mm-b", "mm-a"} THEN "mm" ELSE id[1]

\* C15: within one run no two orders submitted to the book (maker bids,
\* maker asks, noise orders, informed orders) have the same id, and the
\* numeric suffix of each generator's ids strictly increases in creation
\* order.
C15_UniqueIncreasingIds ==
    \A i, j \in 1..Len(submittedIds) :
        i < j =>
            /\ submittedIds[i] # submittedIds[j]
            /\ GeneratorOf(submittedIds[i]) = GeneratorOf(submittedIds[j])
                  => submittedIds[i][2] < submittedIds[j][2]

\* two ticks quoted, with a noise order in one and an informed order in the
\* other
C15_Witness ==
    /\ Len(submittedIds) = 6
    /\ \E i \in 1..Len(submittedIds) : GeneratorOf(submittedIds[i]) = "noise"
    /\ \E i \in 1..Len(submittedIds) : GeneratorOf(submittedIds[i]) = "inf"

\* C16: every trade emitted in any reachable simulation state has price > 0.
C16_TradePricePositive ==
    /\ \A k \in 1..Len(trades) : trades[k].price > 0
    /\ \A k \in 1..Len(tickTrades) : tickTrades[k].price > 0
    /\ \A k \in 1..Len(allTrades) : allTrades[k].price > 0

InTick == pc \in {"submitQuotes", "flow", "price"}

\* C17: true-value stamping and tick ordering. Every trade produced in tick
\* t carries the latent value before tick t's price step, which is the
\* value the book was given at the end of tick t-1 or the initial price for
\* tick 0; the maker's onTrade for it is called only after tick t's price
\* step, with trueValueAfter the value after the step.
C17_StampingAndOrdering ==
    /\ bookTrueValue = value
    /\ tick = 0 => value = config.initialPrice
    /\ InTick =>
          /\ \A k \in 1..Len(trades) :
                trades[k].trueValue = value /\ trades[k].ts = tick * config.tickMs
          /\ pc = "price" =>
                \A k \in 1..Len(tickTrades) :
                    /\ tickTrades[k].trueValue = value
                    /\ tickTrades[k].ts = tick * config.tickMs
    /\ \A k \in 1..Len(onTradeLog) :
          /\ onTradeLog[k].trade.ts < tick * config.tickMs
          /\ (pc = "quote" /\ onTradeLog[k].trade.ts = (tick - 1) * config.tickMs)
                => onTradeLog[k].trueValueAfter = value

\* a tick has traded and its price step has moved the value
C17_Witness ==
    /\ pc = "quote"
    /\ onTradeLog # <<>>
    /\ LET last == onTradeLog[Len(onTradeLog)]
       IN /\ last.trade.ts = (tick - 1) * config.tickMs
          /\ last.trueValueAfter # last.trade.trueValue

\* the per-trade amounts of the onTrade calls, for the trades the maker made
IsMakerCall(call) == call.trade.makerId = MMId

SpreadCapturedOf(call) ==
    IF call.trade.takerSide = "buy"
    THEN (call.trade.price - call.trade.trueValue) * call.trade.qty
    ELSE (call.trade.trueValue - call.trade.price) * call.trade.qty

InventoryDeltaOf(call) ==
    IF call.trade.takerSide = "buy" THEN -call.trade.qty ELSE call.trade.qty

\* the maker's inventory before the k-th call
RECURSIVE InventoryBefore(_, _)
InventoryBefore(log, k) ==
    IF k <= 1 THEN 0
    ELSE InventoryBefore(log, k - 1)
         + (IF IsMakerCall(log[k - 1]) THEN InventoryDeltaOf(log[k - 1]) ELSE 0)

InventoryMtmOf(log, k) ==
    InventoryBefore(log, k) * (log[k].trueValueAfter - log[k].trade.trueValue)

RECURSIVE SumSpreadCaptured(_, _)
SumSpreadCaptured(log, k) ==
    IF k = 0 THEN 0
    ELSE SumSpreadCaptured(log, k - 1)
         + (IF IsMakerCall(log[k]) THEN SpreadCapturedOf(log[k]) ELSE 0)

RECURSIVE SumInventoryMtm(_, _)
SumInventoryMtm(log, k) ==
    IF k = 0 THEN 0
    ELSE SumInventoryMtm(log, k - 1)
         + (IF IsMakerCall(log[k]) THEN InventoryMtmOf(log, k) ELSE 0)

\* C18: maker accounting identity. After every onTrade call and at every
\* tick, pnl = spreadPnl + inventoryPnl, where spreadPnl and inventoryPnl
\* are the running sums of the per-trade spreadCaptured and inventoryMtm.
C18_AccountingIdentity ==
    /\ mm.pnl = mm.spreadPnl + mm.inventoryPnl
    /\ mm.spreadPnl = SumSpreadCaptured(onTradeLog, Len(onTradeLog))
    /\ mm.inventoryPnl = SumInventoryMtm(onTradeLog, Len(onTradeLog))

\* the maker has both kinds of P&L, of different size
C18_Witness ==
    /\ mm.inventoryPnl # 0
    /\ mm.spreadPnl # 0
    /\ mm.pnl # mm.spreadPnl
    /\ mm.pnl # mm.inventoryPnl

\* the net cash the maker received from its fills
RECURSIVE NetCash(_)
NetCash(tr) ==
    IF tr = <<>> THEN 0
    ELSE NetCash(Tail(tr))
         + (IF Head(tr).makerId # MMId THEN 0
            ELSE IF Head(tr).takerSide = "buy" THEN Head(tr).price * Head(tr).qty
            ELSE -(Head(tr).price * Head(tr).qty))

\* C19: exactness of the decomposition. After every tick, spreadPnl +
\* inventoryPnl equals the maker's total realized plus unrealized P&L: the
\* net cash received from all maker fills plus the inventory marked at the
\* current true value.
C19_DecompositionExact ==
    pc = "quote" =>
        mm.spreadPnl + mm.inventoryPnl = NetCash(allTrades) + mm.inventory * value

(***************************************************************************)
(* Invariants of the maker.                                                *)
(***************************************************************************)
\* C20: spread floor. In every reachable maker state (after construction,
\* after every onTrade, after reset), currentSpread >= 0.5 * baseSpread,
\* for every non-negative baseSpread and every adaptRate.
C20_SpreadFloor == 2 * mm.currentSpread >= mm.baseSpread

\* the adaptation has moved the spread of a maker with a positive base
\* spread down to the floor
C20_Witness ==
    /\ mm.baseSpread > 0
    /\ Len(mm.recentTrades) >= MinWindow
    /\ 2 * mm.currentSpread = mm.baseSpread

\* C21: the spread adaptation is inert until the window holds 5 entries.
\* While the maker has ingested fewer than 5 trades of its own since its
\* construction or its last reset, currentSpread equals baseSpread exactly.
C21_InertBelowFive ==
    mm.fillCount < MinWindow =>
        /\ Len(mm.recentTrades) = mm.fillCount
        /\ mm.currentSpread = mm.baseSpread

\* four of the maker's trades ingested, informed ones among them, under a
\* positive base spread
C21_Witness ==
    /\ mm.fillCount = MinWindow - 1
    /\ mm.baseSpread > 0
    /\ AdverseCount(mm.recentTrades) > 0

\* the maker's signed position implied by a trade log: what takers sold to
\* it less what takers bought from it
RECURSIVE SignedMakerQty(_)
SignedMakerQty(tr) ==
    IF tr = <<>> THEN 0
    ELSE SignedMakerQty(Tail(tr))
         + (IF Head(tr).makerId # MMId THEN 0
            ELSE IF Head(tr).takerSide = "sell" THEN Head(tr).qty
            ELSE -Head(tr).qty)

\* C22: inventory bookkeeping. After every tick the maker's signed inventory
\* equals the sum of qty over the logged trades made by the maker's orders
\* and taken by a sell, minus the sum over those taken by a buy.
C22_InventoryFromLog ==
    pc = "quote" => mm.inventory = SignedMakerQty(allTrades)

\* the log holds a maker trade taken by a buy and one taken by a sell, of
\* different sizes
C22_Witness ==
    /\ pc = "quote"
    /\ mm.inventory # 0
    /\ \E i, j \in 1..Len(allTrades) :
          /\ allTrades[i].makerId = MMId /\ allTrades[i].takerSide = "buy"
          /\ allTrades[j].makerId = MMId /\ allTrades[j].takerSide = "sell"

(***************************************************************************)
(* The simulation followed from its seed.                                  *)
(***************************************************************************)
\* a level of a snapshot holds one maker order of the given price and size
OneMakerOrder(levels, price, size) ==
    /\ Len(levels) = 1
    /\ levels[1].price = price
    /\ Len(levels[1].orders) = 1
    /\ levels[1].orders[1].traderId = MMId
    /\ levels[1].orders[1].qty = size

\* C23: cold-start quote. With the default configuration (seed 42) the
\* snapshot returned by the first step() shows exactly one bid at 99.95 and
\* one ask at 100.05, both of size 100, with no trades emitted in that tick
\* and maker inventory 0.
C23_ColdStartQuote ==
    (config = DefaultConfig /\ stepLog # <<>>) =>
        LET first == stepLog[1]
        IN /\ OneMakerOrder(first.book.bids, Dollars(100) - 5 * CentUnits, 100)
           /\ OneMakerOrder(first.book.asks, Dollars(100) + 5 * CentUnits, 100)
           /\ first.trades = <<>>
           /\ first.metrics.mmInventory = 0

\* C23, as the generator decides it: the snapshot of the first step() shows
\* one bid at 99.95 and one ask at 100.05, both of size 100, and seed 42
\* brings a noise order into that tick, a market sell of 3, which trades
\* once against the bid; the bid stands filled by 3 and the maker's
\* inventory is 3.
C23_ColdStartQuoteAndSell ==
    (config = DefaultConfig /\ stepLog # <<>>) =>
        LET first == stepLog[1]
        IN /\ OneMakerOrder(first.book.bids, Dollars(100) - 5 * CentUnits, 100)
           /\ OneMakerOrder(first.book.asks, Dollars(100) + 5 * CentUnits, 100)
           /\ first.book.bids[1].orders[1].filled = 3
           /\ first.book.asks[1].orders[1].filled = 0
           /\ Len(first.trades) = 1
           /\ first.trades[1].takerType = "noise"
           /\ first.trades[1].takerSide = "sell"
           /\ first.trades[1].qty = 3
           /\ first.trades[1].price = Dollars(100) - 5 * CentUnits
           /\ first.metrics.mmInventory = 3

\* the first step() of the default configuration has returned
C23_Witness ==
    /\ config = DefaultConfig
    /\ Len(stepLog) = 1
    /\ stepLog[1].tick = 0

\* C24: noise-only regime. With informedRatio = 0, for every seed and every
\* number of ticks, no informed order is ever generated (informedCount = 0
\* and adverseCount = 0 in every metrics vector) and currentSpread stays
\* within [0.5 * baseSpread, baseSpread] at every tick.
C24_NoiseOnlyRegime ==
    config.informedRatio.num = 0 =>
        /\ \A i \in 1..Len(submittedIds) : GeneratorOf(submittedIds[i]) # "inf"
        /\ \A k \in 1..Len(metricsLog) :
              /\ metricsLog[k].informedCount = 0
              /\ metricsLog[k].adverseCount = 0
              /\ 2 * metricsLog[k].mmSpread >= config.mmBaseSpread
              /\ metricsLog[k].mmSpread <= config.mmBaseSpread
        /\ 2 * mm.currentSpread >= mm.baseSpread
        /\ mm.currentSpread <= mm.baseSpread

\* without informed takers the maker has made enough trades for its spread
\* adaptation to act
C24_Witness ==
    /\ config.informedRatio.num = 0
    /\ mm.baseSpread > 0
    /\ mm.fillCount >= MinWindow
    /\ Len(metricsLog) >= MinWindow

(***************************************************************************)
(* The informed trader.                                                    *)
(***************************************************************************)
\* C25: informed-taker edge threshold. When the informed taker's arrival
\* draw succeeds, it emits an order if and only if |e| >= 0.0005 with
\* e = (trueValue - referencePrice) / referencePrice; the order is a buy
\* when e > 0 and a sell otherwise, and nothing is emitted when
\* |e| < 0.0005.
C25_EdgeThreshold ==
    (traderCall # <<>> /\ RngBool(traderCall.ka, traderCall.arrivalProb)) =>
        LET edge == traderCall.trueValue - traderCall.currentPrice
            order == traderCall.order
        IN IF Abs(edge) * 2000 >= traderCall.currentPrice
           THEN /\ order # NoOrder
                /\ order.side = IF edge > 0 THEN "buy" ELSE "sell"
           ELSE order = NoOrder

\* what the code does instead: the threshold it compares with is 0.001
InformedThresholdAsCoded ==
    (traderCall # <<>> /\ RngBool(traderCall.ka, traderCall.arrivalProb)) =>
        LET edge == traderCall.trueValue - traderCall.currentPrice
            order == traderCall.order
        IN IF Abs(edge) * 1000 >= traderCall.currentPrice
           THEN /\ order # NoOrder
                /\ order.side = IF edge > 0 THEN "buy" ELSE "sell"
           ELSE order = NoOrder

\* C26: per-tick draw order. In every tick the shared generator is drawn in
\* exactly this sequence: one class draw (bool(informedRatio)), then the
\* selected taker's arrival draw, then only if it arrived its remaining
\* draws (noise: side, then quantity; informed: quantity, only when the edge
\* passes the threshold), then the price step's two normal draws, the jump
\* draw, and the jump-sign draw only if the jump fired. Maker quoting and
\* maker bookkeeping draw nothing, and the class draw is consumed whether or
\* not an order is produced.
C26_DrawOrder ==
    [][LET d(i) == LcgIter(rng, i)
       IN /\ pc \in {"quote", "submitQuotes"} => rng' = rng
          /\ pc = "flow" =>
                LET informed == LcgBelow(d(1), config.informedRatio)
                    arrived == LcgBelow(d(2), config.arrivalRate)
                IN IF submittedIds' = submittedIds
                   THEN /\ ~arrived \/ informed
                        /\ rng' = d(2)
                   ELSE IF Taker.traderType = "informed"
                   THEN /\ informed /\ arrived
                        /\ Taker.qty = LcgScaled(d(3), 16) + 5
                        /\ rng' = d(3)
                   ELSE /\ ~informed /\ arrived
                        /\ Taker.side = IF LcgBelow(d(3), Half) THEN "buy" ELSE "sell"
                        /\ Taker.qty = LcgScaled(d(4), 10) + 1
                        /\ rng' = d(4)
          /\ pc = "price" =>
                LET jumped == LcgBelow(d(3), config.jumpProb)
                    jump == IF ~jumped THEN 0
                            ELSE IF LcgBelow(d(4), Half) THEN 1 ELSE -1
                IN /\ rng' = IF jumped THEN d(4) ELSE d(3)
                   /\ \E z \in NormalOf(d(1), d(2)) :
                         value' = StepValue(value, config, z, jump)]_vars

\* one run of three ticks or more has seen a noise order and an informed
\* order
C26_Witness ==
    /\ \E i \in 1..Len(submittedIds) : GeneratorOf(submittedIds[i]) = "noise"
    /\ \E i \in 1..Len(submittedIds) : GeneratorOf(submittedIds[i]) = "inf"
    /\ pc = "quote"
    /\ tick >= 3

(***************************************************************************)
(* Simulation.run and Simulation.stop.                                     *)
(***************************************************************************)
\* a call of run() has returned without stop() having been called during
\* its flight
CompletedUnstopped(call) == call.pc = "done" /\ ~call.stopped

RunCompletionSafe ==
    /\ tick <= config.ticks
    /\ (InTick \/ stepper # 0) => tick < config.ticks
    /\ Len(stepLog) = tick
    /\ \A i, j \in 1..Len(stepLog) : i < j => stepLog[i].tick < stepLog[j].tick
    /\ \A l \in DOMAIN loops :
          /\ loops[l].steps <= config.ticks - loops[l].start
          /\ CompletedUnstopped(loops[l]) =>
                /\ tick = config.ticks
                /\ loops[l].alone => loops[l].steps = config.ticks - loops[l].start

C28_CooperativeStop == \A l \in DOMAIN loops : loops[l].late = 0

(***************************************************************************)
(* Properties of Simulation.getCurrentState.                               *)
(***************************************************************************)
\* what the last step() returned
LastStep == stepLog[Len(stepLog)]

\* C29: getCurrentState returns the latest snapshot without advancing.
\* Called after a step() with no step in between, it returns the tick
\* index, the metrics (ts included) and the book snapshot that step()
\* returned, and it changes neither the tick, the generator, the book, the
\* maker nor the trade log.
C29_LatestSnapshot ==
    [][current' # current =>
          /\ stepLog # <<>> =>
                /\ current'.tick = LastStep.tick
                /\ current'.metrics = LastStep.metrics
                /\ current'.book = LastStep.book
          /\ UNCHANGED <<tick, rng, bookVars, mm, allTrades>>]_vars

\* what the call does return after a step(): the index and the timestamps
\* of the tick to come, with everything else as step() returned it
GetCurrentStateAsCoded ==
    [][(current' # current /\ stepLog # <<>>) =>
          /\ current'.tick = LastStep.tick + 1
          /\ current'.metrics =
                [LastStep.metrics EXCEPT !.ts = @ + config.tickMs]
          /\ current'.book = [LastStep.book EXCEPT !.ts = @ + config.tickMs]
          /\ UNCHANGED <<tick, rng, bookVars, mm, allTrades>>]_vars

(***************************************************************************)
(* Properties of the Simulation constructor.                               *)
(***************************************************************************)
\* the preconditions on a configuration
Invalid(c) ==
    \/ c.mmSize < 0
    \/ c.arrivalRate.num < 0
    \/ c.arrivalRate.num > c.arrivalRate.den
    \/ c.initialPrice <= 0

\* C30: an invalid configuration is rejected at construction. With a
\* negative maker size, an arrivalRate outside [0,1] or a non-positive
\* initial price, there is no Simulation of which a tick can be stepped.
C30_InvalidRejected ==
    Invalid(config) => (pc = "quote" /\ tick = 0 /\ stepLog = <<>>)

(***************************************************************************)
(* Properties of the maker's quotes inside a run.                          *)
(***************************************************************************)
\* the doubled mid a quote refers to: the book's mid, or its true value
QuoteMid2 ==
    IF HasLevel(bids) /\ HasLevel(asks) THEN Mid2Of(bids, asks)
    ELSE 2 * bookTrueValue

\* C31: inventory-skewed quoting. Every quote produced inside a run has
\* bid = round((mid - h - k)*100)/100 and ask = round((mid + h - k)*100)/100
\* with h = currentSpread/2 and k = inventory times the inventory-skew
\* factor given in the run's configuration.
C31_ConfiguredSkew ==
    (pc = "submitQuotes" /\ Len(quotes) = 2) =>
        LET k == mm.inventory * config.mmInventorySkew
        IN /\ quotes[1].price = RoundCent2(QuoteMid2 - mm.currentSpread - 2 * k)
           /\ quotes[2].price = RoundCent2(QuoteMid2 + mm.currentSpread - 2 * k)

\* the quotes the maker does produce: skewed by its inventory times 0.0005,
\* whatever the configuration gives
QuoteSkewAsCoded ==
    (pc = "submitQuotes" /\ Len(quotes) = 2) =>
        LET k == mm.inventory * DefaultInventorySkew
        IN /\ quotes[1].price = RoundCent2(QuoteMid2 - mm.currentSpread - 2 * k)
           /\ quotes[2].price = RoundCent2(QuoteMid2 + mm.currentSpread - 2 * k)

(***************************************************************************)
(* Properties of the trade log.                                            *)
(***************************************************************************)
\* the ids of the trades the book has emitted since the process started
EmittedIds == [k \in 1..tradeSeq |-> <<"t", k>>]

\* C32: completeness of the event log. Every trade the book emits during a
\* run, those of the maker's own quote submissions included, is in the
\* cumulative log getTrades returns, in the snapshot trades of its tick and
\* is fed to the maker's onTrade exactly once, all in emission order.
C32_LogComplete ==
    pc = "quote" =>
        /\ [k \in 1..Len(allTrades) |-> allTrades[k].id] = EmittedIds
        /\ [k \in 1..Len(onTradeLog) |-> onTradeLog[k].trade.id] = EmittedIds
        /\ tick > 0 =>
              tickTrades = SelectSeq(allTrades,
                                     LAMBDA t : t.ts = (tick - 1) * config.tickMs)

\* what the run does log: the trades of the incoming orders, each once and
\* in emission order
FlowTradesLogged ==
    pc = "quote" =>
        /\ [k \in 1..Len(onTradeLog) |-> onTradeLog[k].trade] = allTrades
        /\ \A i, j \in 1..Len(allTrades) :
              i < j => allTrades[i].id[2] < allTrades[j].id[2]
        /\ \A k \in 1..Len(allTrades) : allTrades[k].takerType # "mm"
        /\ tick > 0 =>
              tickTrades = SelectSeq(allTrades,
                                     LAMBDA t : t.ts = (tick - 1) * config.tickMs)

(***************************************************************************)
(* Properties of PriceProcess.peek.                                        *)
(***************************************************************************)
\* C33: peek simulates the future without changing state. After it returns
\* the process value and the state of the shared generator are what they
\* were before the call, so later draws and later steps are unaffected.
C33_PeekChangesNothing ==
    [][peeked' # peeked => (value' = value /\ rng' = rng)]_vars

\* what peek does leave: the value as it was, and the shared generator
\* three or four draws further for each step simulated
PeekAsCoded ==
    [][peeked' # peeked =>
          /\ value' = value
          /\ \E n \in 3..(4 * MaxPeekSteps) : rng' = LcgIter(rng, n)
          /\ UNCHANGED <<bookVars, tick, mm, allTrades>>]_vars

(***************************************************************************)
(* Properties of the order index.                                          *)
(***************************************************************************)
\* the ids of the orders in the level lists
RestingIds == {heap[r].id : r \in RefsOf(bids) \cup RefsOf(asks)}

\* C34: order lifetime in the index. After any submit, cancel or cancelAll
\* returns, the keys of the order index are exactly the ids of the orders
\* resting in the level lists: no market order and no fully filled order,
\* maker or taker, remains in the index.
C34_IndexIsResting == DOMAIN orderIndex = RestingIds

\* what the index does hold: every resting order, and with it every taker
\* submitted and not cancelled since, whatever became of it; a maker filled
\* in full is removed
IndexAsCoded ==
    /\ RestingIds \subseteq DOMAIN orderIndex
    /\ \A id \in DOMAIN orderIndex \ RestingIds :
          LET order == heap[orderIndex[id]]
          IN order.type = "market" \/ order.filled >= order.qty
    /\ \A k \in 1..Len(trades) :
          MapHas(orderIndex, trades[k].takerOrderId)

(***************************************************************************)
(* Conservation of quantity in OrderBook.submit.                           *)
(***************************************************************************)
RECURSIVE SumQty(_)
SumQty(tr) == IF tr = <<>> THEN 0 ELSE Head(tr).qty + SumQty(Tail(tr))

\* what the orders `refs` have left in heap h, all together
RECURSIVE RemainingOf(_, _)
RemainingOf(h, refs) ==
    IF refs = {} THEN 0
    ELSE LET r == CHOOSE x \in refs : TRUE
         IN Remaining(h, r) + RemainingOf(h, refs \ {r})

\* C35: fill conservation in submit. Each emitted trade has qty >= 1; the
\* trades' quantities add up to the increase of the taker's filled count
\* and to the decrease of the remaining quantity of the orders resting on
\* the opposite side; no other order's filled count changes.
C35_FillConservation ==
    [][IsSubmit =>
          LET makers == RefsOf(OppositeBefore)
          IN /\ \A k \in 1..Len(trades') : trades'[k].qty >= 1
             /\ SumQty(trades') = Taker.filled
             /\ SumQty(trades') = RemainingOf(heap, makers) - RemainingOf(heap', makers)
             /\ RefsOf(OwnBefore) \subseteq DOMAIN heap'
             /\ \A r \in (DOMAIN heap \cap DOMAIN heap') \ makers :
                   heap'[r].filled = heap[r].filled
             /\ \A r \in makers : heap'[r].filled >= heap[r].filled]_vars

\* a taker was filled by two resting orders, the second of them in part
C35_Witness ==
    /\ Len(trades) = 2
    /\ trades[1].makerOrderId # trades[2].makerOrderId
    /\ \E r \in RefsOf(bids) \cup RefsOf(asks) :
          /\ heap[r].id = trades[2].makerOrderId
          /\ heap[r].filled > 0

(***************************************************************************)
(* What rests in the book of a Simulation.                                 *)
(***************************************************************************)
RestingRefs == RefsOf(bids) \cup RefsOf(asks)

\* C36: in every state of the simulation every resting order is the
\* maker's; the book is empty right after the maker's cancelAll at the
\* start of a tick, so that the quote refers to the book's true value; and
\* at the end of a tick the book holds at most one resting bid and at most
\* one resting ask, both created in that tick.
C36_OnlyFreshMakerOrders ==
    /\ \A r \in RestingRefs :
          heap[r].traderId = MMId /\ heap[r].traderType = "mm"
    /\ (pc = "submitQuotes" /\ Len(quotes) = 2) =>
          /\ RestingRefs = {}
          /\ QuoteMid2 = 2 * bookTrueValue
    /\ pc = "quote" =>
          /\ Cardinality(RefsOf(bids)) <= 1
          /\ Cardinality(RefsOf(asks)) <= 1
          /\ \A r \in RestingRefs : tick > 0 /\ heap[r].ts = (tick - 1) * config.tickMs

\* the second tick's quote has just cancelled what was left of a first tick
\* that traded
C36_Witness ==
    /\ tick = 1
    /\ pc = "submitQuotes"
    /\ Len(quotes) = 2
    /\ allTrades # <<>>
    /\ RestingRefs = {}

(***************************************************************************)
(* Properties of the metrics of a run.                                     *)
(***************************************************************************)
\* the metrics vector of the step that has just ended, but for its ts
MetricsNow == GetMetrics(config, tick, value, bids, asks, mm, allTrades)

\* C37: in every metrics vector every logged trade has the maker class mm
\* and a market-order taker, so adverseCount = informedCount <= tradeCount;
\* each tick adds at most one trade to the log; and the maker's fillCount
\* equals tradeCount.
C37_MetricsCounts ==
    /\ \A k \in 1..Len(allTrades) :
          /\ allTrades[k].makerType = "mm"
          /\ allTrades[k].takerType \in {"noise", "informed"}
          /\ GeneratorOf(allTrades[k].takerOrderId) \in {"noise", "inf"}
    /\ Len(tickTrades) <= 1
    /\ pc = "quote" =>
          /\ MetricsNow.adverseCount = MetricsNow.informedCount
          /\ MetricsNow.informedCount <= MetricsNow.tradeCount
          /\ mm.fillCount = MetricsNow.tradeCount

\* two ticks have ended, one with a noise trade and one with an informed
\* trade
C37_Witness ==
    /\ pc = "quote"
    /\ MetricsNow.tradeCount = 2
    /\ MetricsNow.informedCount = 1
    /\ mm.fillCount = 2

(***************************************************************************)
(* The informed trader facing the maker's fresh quotes.                    *)
(***************************************************************************)
\* the doubled reference price the informed trader is given
ReferencePrice2 ==
    IF HasLevel(bids) /\ HasLevel(asks) THEN Mid2Of(bids, asks) ELSE 2 * value

\* an order of the informed trader is submitted in this step
InformedSubmits ==
    /\ Len(submittedIds') = Len(submittedIds) + 1
    /\ GeneratorOf(submittedIds'[Len(submittedIds')]) = "inf"

\* C38: within the simulation, when the maker's inventory is 0 and the true
\* value is at least 10, the informed trader's reference price, the mid of
\* the maker's fresh quotes, differs from the true value by cent rounding
\* only, |edge| is below 0.0005, and the informed trader emits no order in
\* that tick: informed orders occur only in ticks where the maker's
\* inventory is not 0.
C38_InertAtZeroInventory ==
    [][(pc = "flow" /\ mm.inventory = 0 /\ value >= Dollars(10)) =>
          /\ Abs(2 * value - ReferencePrice2) <= CentUnits
          /\ Abs(2 * value - ReferencePrice2) * 2000 < ReferencePrice2
          /\ ~InformedSubmits]_vars

\* the incoming order is about to be drawn while the maker holds nothing
\* and its fresh quotes stand half a cent above a true value of ten dollars
\* or more
C38_Witness ==
    /\ pc = "flow"
    /\ mm.inventory = 0
    /\ value >= Dollars(10)
    /\ HasLevel(bids)
    /\ HasLevel(asks)
    /\ Mid2Of(bids, asks) - 2 * value = CentUnits

====
